---- MODULE Spec2Model ----
(***************************************************************************)
(* Model of the Niagara download engine (src/niagara_download_engine.py):  *)
(* the persistent DownloadState, the worker pool of download_batch and     *)
(* download_batch_with_resume, and the disk they read and write.           *)
(*                                                                         *)
(* Python strings that the code inspects character by character (point     *)
(* paths, file names) are sequences of one-character strings; strings the  *)
(* code only stores (district, error messages) are TLA+ strings.           *)
(* An Optional[str] is a sequence of length 0 (None) or 1.                 *)
(***************************************************************************)
EXTENDS Integers, Sequences, FiniteSets, TLC

\* ------------------------------------------------------------------------
\* Bounds of the model
\* ------------------------------------------------------------------------
MaxLen == 2          \* longest item list of the small configurations
MaxCalls == 3        \* batch calls started in one behaviour (short lists)
BulkMaxCalls == 2    \* batch calls started in one behaviour (long list)
MaxDay == 2          \* calendar days seen in one behaviour
MaxWorkers == 2      \* largest max_workers of the small configurations
BulkLen == 51        \* length of the long item list
MaxNameLen == 3      \* longest point path of the file-name configurations
ThrottleLen == 10    \* length of the item list of the throttle configurations
ThrottleMaxCalls == 1    \* batch calls started in one behaviour (throttle)
RetryMaxCalls == 1   \* batch calls started in one behaviour (retries)
MaxLines == 2        \* lines of a point list file
MaxLineLen == 3      \* characters of a line of a point list file
LockLen == 7         \* length of the item list of the lock configurations
ThreadMaxCalls == 1  \* batch calls started in one behaviour (threads)
MaxPrinterThreads == 2   \* threads that call one ProgressPrinter
MaxPrinterCalls == 3     \* calls of one ProgressPrinter in one behaviour

\* ------------------------------------------------------------------------
\* Program constants
\* ------------------------------------------------------------------------
SaveEvery == 50          \* "if completed % 50 == 0"
MinContentSize == 50     \* min_content_size default
MsgLimit == 50           \* str(e)[:50]

\* ------------------------------------------------------------------------
\* Generic helpers
\* ------------------------------------------------------------------------
Range(s) == {s[i] : i \in 1..Len(s)}

\* The filter that keeps every item
KeepAll(s, banned) == s

RECURSIVE SelectSeq2(_, _)
\* [x for x in s if x not in banned]
SelectSeq2(s, banned) ==
    IF s = <<>> THEN <<>>
    ELSE IF Head(s) \in banned THEN SelectSeq2(Tail(s), banned)
         ELSE <<Head(s)>> \o SelectSeq2(Tail(s), banned)

\* ------------------------------------------------------------------------
\* Point paths and output file names
\* ------------------------------------------------------------------------
IdA == <<"/", "a">>
IdB == <<"/", "b">>
SmallIds == {IdA, IdB}

Digit == <<"0", "1", "2", "3", "4", "5", "6", "7", "8", "9">>
BulkId(n) == <<"/", "p", Digit[(n \div 10) + 1], Digit[(n % 10) + 1]>>
BulkList == [n \in 1..BulkLen |-> BulkId(n)]

ThrottleId(n) == <<"/", "t", Digit[(n \div 10) + 1], Digit[(n % 10) + 1]>>
ThrottleList == [n \in 1..ThrottleLen |-> ThrottleId(n)]

IllegalChars == {"<", ">", ":", "\"", "|", "?", "*"}

ReplaceChar(s, c) == [i \in 1..Len(s) |-> IF s[i] = c THEN "_" ELSE s[i]]

RECURSIVE LStrip(_)
LStrip(s) == IF s # <<>> /\ Head(s) = "_" THEN LStrip(Tail(s)) ELSE s

RECURSIVE RStrip(_)
RStrip(s) == IF s # <<>> /\ s[Len(s)] = "_" THEN RStrip(SubSeq(s, 1, Len(s) - 1)) ELSE s

\* utils.standardize_filename
standardize_filename(point_path) ==
    LET stripped == RStrip(LStrip(ReplaceChar(point_path, "/")))
    IN  [i \in 1..Len(stripped) |->
            IF stripped[i] \in IllegalChars THEN "_" ELSE stripped[i]]

CsvName(point_path) == standardize_filename(point_path) \o <<".", "c", "s", "v">>

\* ------------------------------------------------------------------------
\* niagara_url_generator: the point list and the item list made from it
\* ------------------------------------------------------------------------
\* str.strip() on a line whose only whitespace is the blank
RECURSIVE LStripWs(_)
LStripWs(s) == IF s # <<>> /\ Head(s) = " " THEN LStripWs(Tail(s)) ELSE s

RECURSIVE RStripWs(_)
RStripWs(s) ==
    IF s # <<>> /\ s[Len(s)] = " " THEN RStripWs(SubSeq(s, 1, Len(s) - 1)) ELSE s

StripWs(s) == RStripWs(LStripWs(s))

\* line.split(',')[0]
RECURSIVE FirstColumn(_)
FirstColumn(s) ==
    IF s = <<>> \/ Head(s) = "," THEN <<>>
    ELSE <<Head(s)>> \o FirstColumn(Tail(s))

\* point_path.replace('"', '')
RECURSIVE DropQuotes(_)
DropQuotes(s) ==
    IF s = <<>> THEN <<>>
    ELSE IF Head(s) = "\"" THEN DropQuotes(Tail(s))
    ELSE <<Head(s)>> \o DropQuotes(Tail(s))

\* The point path load_point_list reads off one line; <<>> when the line
\* is blank, a comment, or has an empty first column
PointOfLine(raw) ==
    LET line == StripWs(raw)
    IN  IF line = <<>> \/ Head(line) = "#" THEN <<>>
        ELSE DropQuotes(StripWs(FirstColumn(line)))

\* load_point_list(filepath), on the lines of the file
RECURSIVE load_point_list(_)
load_point_list(lines) ==
    IF lines = <<>> THEN <<>>
    ELSE LET point_path == PointOfLine(Head(lines))
         IN  (IF point_path # <<>> THEN <<point_path>> ELSE <<>>)
                 \o load_point_list(Tail(lines))

\* URLGenerator._build_url for a fixed base address and time range
build_url(point_path) ==
    <<"ord?history:">> \o point_path
        \o <<"?period=timeRange|bql:select%20timestamp,value|view:file:ITableToCsv">>

\* URLGenerator(district).generate(days=...): ValueError without a point
\* list, else one (point_path, url) pair per point
generate(points) ==
    IF points = <<>>
    THEN [called |-> TRUE, raised |-> TRUE, urls |-> <<>>]
    ELSE [called |-> TRUE, raised |-> FALSE,
          urls |-> [i \in 1..Len(points) |->
                       [point_path |-> points[i], url |-> build_url(points[i])]]]

\* ------------------------------------------------------------------------
\* DownloadState and its JSON file
\* ------------------------------------------------------------------------
\* DownloadState(district=..., date_started=..., total_points=...)
NewState(district, started, total) ==
    [district |-> district, date_started |-> started, total_points |-> total,
     completed |-> <<>>, failed |-> <<>>, empty |-> <<>>]

\* completed_set that leaves out the points recorded as empty
completed_set_without_empty(st) == Range(st.completed) \ Range(st.empty)

\* completed_set that also holds the points recorded as failed
completed_set_with_failed(st) ==
    Range(st.completed) \cup {st.failed[i].point : i \in 1..Len(st.failed)}

\* DownloadState.completed_set
completed_set(st) == Range(st.completed)

JStr(s) == [t |-> "string", v |-> s]
JNum(n) == [t |-> "number", v |-> n]
JArr(items) == [t |-> "array", v |-> items]
JObj(members) == [t |-> "object", v |-> members]
JNull == [t |-> "null", v |-> <<>>]

\* json.dump(asdict(self)): the JSON document written for a state
JsonDump(st) ==
    JObj([district |-> JStr(st.district),
          date_started |-> JStr(st.date_started),
          total_points |-> JNum(st.total_points),
          completed |-> JArr([i \in 1..Len(st.completed) |-> JStr(st.completed[i])]),
          failed |-> JArr([i \in 1..Len(st.failed) |->
                        JObj([point |-> JStr(st.failed[i].point),
                              error |-> JStr(st.failed[i].error),
                              time |-> JStr(st.failed[i].time)])]),
          empty |-> JArr([i \in 1..Len(st.empty) |-> JStr(st.empty[i])])])

\* FromJson with the empty list read from the completed array
FromJsonEmptyFromCompleted(doc) ==
    [district |-> doc.v.district.v,
     date_started |-> doc.v.date_started.v,
     total_points |-> doc.v.total_points.v,
     completed |-> [i \in 1..Len(doc.v.completed.v) |-> doc.v.completed.v[i].v],
     failed |-> [i \in 1..Len(doc.v.failed.v) |->
                    [point |-> doc.v.failed.v[i].v.point.v,
                     error |-> doc.v.failed.v[i].v.error.v,
                     time |-> doc.v.failed.v[i].v.time.v]],
     empty |-> [i \in 1..Len(doc.v.completed.v) |-> doc.v.completed.v[i].v]]

\* cls(**json.load(f)) for a document written by JsonDump
FromJson(doc) ==
    [district |-> doc.v.district.v,
     date_started |-> doc.v.date_started.v,
     total_points |-> doc.v.total_points.v,
     completed |-> [i \in 1..Len(doc.v.completed.v) |-> doc.v.completed.v[i].v],
     failed |-> [i \in 1..Len(doc.v.failed.v) |->
                    [point |-> doc.v.failed.v[i].v.point.v,
                     error |-> doc.v.failed.v[i].v.error.v,
                     time |-> doc.v.failed.v[i].v.time.v]],
     empty |-> [i \in 1..Len(doc.v.empty.v) |-> doc.v.empty.v[i].v]]

EmptyDoc == JsonDump(NewState("", "", 0))

\* The three contents a state file can have: no file, a complete JSON text,
\* or the prefix of one (open(path, 'w') truncates, json.dump then writes the
\* text piece by piece; every strict prefix is invalid JSON).
\* A save that writes the state as it was when the call started counting
WrittenFileStale(st) ==
    [exists |-> TRUE, valid |-> TRUE,
     doc |-> JsonDump([st EXCEPT !.completed = SubSeq(@, 1, Len(@) - 1)])]

NoFile == [exists |-> FALSE, valid |-> FALSE, doc |-> EmptyDoc]
TruncatedFile == [exists |-> TRUE, valid |-> FALSE, doc |-> EmptyDoc]
WrittenFile(st) == [exists |-> TRUE, valid |-> TRUE, doc |-> JsonDump(st)]

\* The fields of the dataclass
StateFields ==
    {"district", "date_started", "total_points", "completed", "failed", "empty"}

\* cls(**data): TypeError unless data is a dict whose keys are field names
\* (a key left out takes the field's default; the documents of the model
\* that are objects carry the six fields). The dataclass checks no type.
Constructs(doc) == doc.t = "object" /\ DOMAIN doc.v \subseteq StateFields

\* State files that another program or an editor has left: valid JSON that
\* is not the JSON of a DownloadState
ForeignDocs ==
    { JArr(<<>>),
      JObj([k \in StateFields \cup {"version"} |->
                IF k = "version" THEN JNum(1) ELSE EmptyDoc.v[k]]),
      JObj([EmptyDoc.v EXCEPT !.completed = JNull]),
      JObj([EmptyDoc.v EXCEPT !.completed = JNum(0)]) }

ForeignFile(doc) == [exists |-> TRUE, valid |-> TRUE, doc |-> doc]

\* load without the except clause: whatever the file holds is decoded
load_unguarded(file) ==
    IF ~file.exists THEN [ok |-> FALSE, st |-> NewState("", "", 0)]
    ELSE [ok |-> TRUE, st |-> FromJson(file.doc)]

\* DownloadState.load: None (ok = FALSE) or the state read
load(file) ==
    IF ~file.exists THEN [ok |-> FALSE, st |-> NewState("", "", 0)]
    ELSE IF ~file.valid THEN [ok |-> FALSE, st |-> NewState("", "", 0)]
    ELSE IF ~Constructs(file.doc) THEN [ok |-> FALSE, st |-> NewState("", "", 0)]
    ELSE IF file.doc.v.completed.t # "array"
         THEN \* the state whose completed field is not a list; it does not
              \* outlive "already_done = state.completed_set"
              [ok |-> TRUE, st |-> NewState("", "", 0)]
    ELSE [ok |-> TRUE, st |-> FromJson(file.doc)]

\* set(self.completed) raises TypeError: load returned a state whose
\* completed field holds None or a number
completed_set_raises(file) ==
    /\ file.exists
    /\ file.valid
    /\ Constructs(file.doc)
    /\ file.doc.v.completed.t \in {"null", "number", "boolean"}

\* ------------------------------------------------------------------------
\* Clock, folders, inputs
\* ------------------------------------------------------------------------
\* datetime.now().isoformat() and datetime.now().strftime('%Y-%m-%d'), at the
\* granularity of a day
isoformat(day) == "day-" \o ToString(day)

\* A resolved directory: output_folder, with the date subfolder (day > 0) or
\* without it (day = 0)
Folders == [base : {"out"}, day : 0..MaxDay]

\* save_folder of download_batch / download_batch_with_resume
SaveFolder(output_folder, date_subfolder, day) ==
    IF date_subfolder THEN [base |-> output_folder, day |-> day]
    ELSE [base |-> output_folder, day |-> 0]

RECURSIVE SeqsUpTo(_, _)
SeqsUpTo(S, n) ==
    IF n = 0 THEN {<<>>}
    ELSE LET shorter == SeqsUpTo(S, n - 1)
         IN  shorter \cup {Append(s, x) : s \in shorter, x \in S}

\* The item lists a caller passes (an item is identified by its point path;
\* its url is a function of the path) and the engine configurations
SmallCalls ==
    [url_list : SeqsUpTo(SmallIds, MaxLen), output_folder : {"out"},
     date_subfolder : {TRUE}, district : {"D1"}, max_workers : 1..MaxWorkers,
     progress_callback : {"None"}]
BulkCalls ==
    [url_list : {BulkList}, output_folder : {"out"},
     date_subfolder : {TRUE}, district : {"D1"}, max_workers : {1},
     progress_callback : {"None"}]
\* Point paths over separators, a character the normalizer replaces, the
\* replacement character and a letter, each the only item of its list
NameChars == {"/", "\\", ":", "_", "a"}
NamePaths == SeqsUpTo(NameChars, MaxNameLen)
NameCalls ==
    [url_list : {<<p>> : p \in NamePaths}, output_folder : {"out"},
     date_subfolder : {TRUE}, district : {"D1"}, max_workers : {1},
     progress_callback : {"None"}]

\* Point list files: lines over a letter, the column separator, the comment
\* mark, the blank and the quote
LineChars == {"a", ",", "#", " ", "\""}
PointFiles == SeqsUpTo(SeqsUpTo(LineChars, MaxLineLen), MaxLines)
NotGenerated == [called |-> FALSE, raised |-> FALSE, urls |-> <<>>]
\* A URLGenerator over each point list file, before generate is called
GeneratorCalls ==
    [url_list : {<<>>}, output_folder : {"out"},
     date_subfolder : {TRUE}, district : {"D1"}, max_workers : {1},
     progress_callback : {"None"}, point_file : PointFiles,
     generated : {NotGenerated}]

\* Calls of an engine built with a progress_callback
ProgressCalls ==
    [url_list : SeqsUpTo(SmallIds, MaxLen), output_folder : {"out"},
     date_subfolder : {TRUE}, district : {"D1"}, max_workers : 1..MaxWorkers,
     progress_callback : {"callable"}]

ThrottleCalls ==
    [url_list : {ThrottleList}, output_folder : {"out"},
     date_subfolder : {TRUE}, district : {"D1"}, max_workers : {1},
     progress_callback : {"None"}]

\* ------------------------------------------------------------------------
\* What the network and the file system can answer to one request
\* ------------------------------------------------------------------------
\* kind: "ok" (2xx with a body of `size` bytes, written to the file),
\* "timeout", "http" (raise_for_status), "reqexc" (another
\* RequestException), "exc" (any other exception before the file is opened),
\* "write" (an OSError from f.write after open() created the file), "open"
\* (an OSError from open()).
\* msg is str(e) of the exception.
Responses ==
    { [kind |-> "ok", size |-> MinContentSize - 1, msg |-> ""],
      [kind |-> "ok", size |-> MinContentSize, msg |-> ""],
      [kind |-> "timeout", size |-> 0, msg |-> "timed out"],
      [kind |-> "http", size |-> 0, msg |-> "404"],
      [kind |-> "reqexc", size |-> 0, msg |-> "Connection refused"],
      [kind |-> "exc", size |-> 0, msg |-> ""],
      [kind |-> "write", size |-> 0, msg |-> "No space left on device"] }

\* open(filepath, 'wb') raises PermissionError: no file is created, and
\* str(e) names the path
PermissionDenied ==
    [kind |-> "open", size |-> 0,
     msg |-> "[Errno 13] Permission denied: 'output/2024-01-15/Zone1_Temp.csv'"]

\* The responses that end in a filesystem error, next to a healthy one
DiskResponses ==
    {r \in Responses : r.kind = "write" \/ (r.kind = "ok" /\ r.size >= MinContentSize)}
        \cup {PermissionDenied}

\* ------------------------------------------------------------------------
\* create_session: the retry strategy mounted on the session
\* ------------------------------------------------------------------------
\* max_retries: int = 3, passed as Retry(total=max_retries)
MaxRetries == 3

\* status_forcelist=[429, 500, 502, 503, 504]
StatusForcelist == {429, 500, 502, 503, 504}

\* The statuses Retry retries when the response has a Retry-After header
\* (respect_retry_after_header is left at its default, True)
RetryAfterStatusCodes == {413, 429, 503}

\* What the server can answer to one GET: a status, with or without a
\* Retry-After header
Answers ==
    [status : {200, 404, 413, 429, 503}, retry_after : {FALSE}]
        \cup [status : {413}, retry_after : {TRUE}]

\* Retry.is_retry for a GET (allowed_methods=["GET"]) with `total` retries
\* left
is_retry(total, a) ==
    \/ a.status \in StatusForcelist
    \/ total > 0 /\ a.retry_after /\ a.status \in RetryAfterStatusCodes

\* A Retry that gives up one retry late
is_exhausted_late(total) == total < -1

\* Retry.is_exhausted after Retry.increment took one from total
is_exhausted(total) == total < 0

\* HTTPAdapter.send with the retry strategy, after the answer a to a request
\* sent with `total` retries left: the request is sent again ("retry"),
\* RetryError is raised, or the response is returned to session.get
urlopen(total, a) ==
    IF ~is_retry(total, a) THEN "response"
    ELSE IF is_exhausted(total - 1) THEN "RetryError"
    ELSE "retry"

\* What _download_single sees of session.get: RetryError is a
\* RequestException; raise_for_status raises HTTPError for 4xx and 5xx; a
\* 200 carries a body of min_content_size bytes
HttpResponse(outcome, status) ==
    IF outcome = "RetryError"
    THEN [kind |-> "reqexc", size |-> 0,
          msg |-> "HTTPSConnectionPool(host='niagara', port=443): Max retries exceeded with url: /ord (Caused by ResponseError('too many "
                      \o ToString(status) \o " error responses'))"]
    ELSE IF status >= 400
    THEN [kind |-> "http", size |-> 0, msg |-> ToString(status)]
    ELSE [kind |-> "ok", size |-> MinContentSize, msg |-> ""]

\* One response of each class the resume loop tells apart: success, empty,
\* failed with a message, failed without one, failed with the file created
CoreResponses == {r \in Responses : r.kind \in {"ok", "timeout", "exc", "write"}}

\* The long list is served by a healthy server
\* The throttle list: every request can time out; the points with an even
\* number have no data (a body below the threshold), the others have data
ResponsesFor(point_path) ==
    IF point_path \in Range(BulkList)
    THEN {r \in Responses : r.kind = "ok" /\ r.size >= MinContentSize}
    ELSE IF \E n \in 1..ThrottleLen : point_path = ThrottleId(n)
    THEN LET n == CHOOSE k \in 1..ThrottleLen : point_path = ThrottleId(k)
         IN  {r \in Responses :
                 \/ r.kind = "timeout"
                 \/ /\ r.kind = "ok"
                    /\ (r.size < MinContentSize) <=> (n % 2 = 0)}
    ELSE Responses \cup {PermissionDenied}

CallLimit(a) ==
    IF a.url_list = BulkList THEN BulkMaxCalls
    ELSE IF a.url_list = ThrottleList THEN ThrottleMaxCalls
    ELSE MaxCalls

\* ------------------------------------------------------------------------
\* State
\* ------------------------------------------------------------------------
VARIABLES
    today,          \* the calendar day
    stateFile,      \* per folder: the content of .download_state.json
    outFiles,       \* per folder: the names of the csv files present
    calls,          \* number of batch calls started
    pc,             \* "idle", "loop", "psave", "fsave", "done" (returned),
                    \* "unwind", "raised" (an exception left the call)
    mode,           \* "batch" (download_batch) or "resume"
    args,           \* the arguments every call of the behaviour is made with
    save_folder,    \* local save_folder
    state,          \* local state: the in-memory DownloadState
    already_done,   \* local already_done
    remaining,      \* local remaining (url_list itself in download_batch)
    stats,          \* local stats: the DownloadStats
    futures,        \* per submitted item: its phase and result
    doneQueue,      \* futures finished and not yet yielded by as_completed
    completed,      \* local completed
    consecutive_failures,   \* self._consecutive_failures
    throttle_multiplier,    \* self._throttle_multiplier, a rational n/d
    requests,       \* point paths for which this call issued session.get
    saves,          \* number of state.save calls this call has completed
    prev,           \* the previous call, as its caller saw it
    crash,          \* the last interruption of the process
    progress,       \* the invocations of progress_callback made by this call
    filtered,       \* what the last filter_existing_files call returned
    dirs,           \* the folders that exist on disk
    run,            \* the download run (GUI thread or CLI district) around
                    \* the batch call, and its engine's session
    wire,           \* per submitted item: the answers the server gave to its
                    \* GET and to the retries of it
    lock,           \* the threads that hold self._lock of the engine
    thr,            \* per submitted item: where the pool thread that runs
                    \* _download_single for it stands, statement by statement
    printer         \* a ProgressPrinter and the threads that are calling it

vars == <<today, stateFile, outFiles, calls, pc, mode, args, save_folder,
          state, already_done, remaining, stats, futures, doneQueue,
          completed, consecutive_failures, throttle_multiplier, requests,
          saves, prev, crash, progress, filtered, dirs, run, wire,
          lock, thr, printer>>

\* DownloadStats(total=..., skipped=...)
NewStats(total, skipped) ==
    [total |-> total, success |-> 0, failed |-> 0, empty |-> 0,
     skipped |-> skipped, bytes_downloaded |-> 0, errors |-> <<>>]

NoResult == [path |-> <<>>, status |-> "", size |-> 0, error |-> <<>>]
NoResponse == [kind |-> "", size |-> 0, msg |-> ""]
\* A submitted future: its phase, the response its request got, its result
Queued == [phase |-> "queued", response |-> NoResponse, result |-> NoResult]

One == [n |-> 1, d |-> 1]
NoPrev ==
    [returned |-> FALSE, mode |-> "batch",
     folder |-> SaveFolder("out", TRUE, 1), skipped |-> 0, success |-> 0,
     empty |-> 0, completed |-> {}]
NoCrash ==
    [happened |-> FALSE, folder |-> SaveFolder("out", TRUE, 1), written |-> {}]
NoFilter == [called |-> FALSE, force |-> FALSE, items |-> <<>>, skipped |-> 0]
\* Nothing was received yet for the request of an item
NoWire == [got |-> <<>>, outcome |-> ""]
\* self._lock of a new engine: held by nobody, acquired by nobody yet.
\* log lists, in the order of the acquisitions, whether the holder was in
\* the success branch of _download_single or in _handle_failure
NewLock == [held |-> {}, log |-> <<>>]
\* A pool thread that has not received the answer to its GET, and its
\* local values: the response, the counter and the multiplier it has read
NoThread == [at |-> "get", r |-> NoResponse, cf |-> 0, m |-> One]
\* The threads that share one ProgressPrinter, none of them inside __call__
PrinterThreads == 1..MaxPrinterThreads
NotCalling == [at |-> "out", status |-> "", tmp |-> 0]
\* A ProgressPrinter as __init__ leaves it, with no caller inside
NewPrinter ==
    [count |-> 0, ok |-> 0, empty |-> 0, fail |-> 0, lock |-> {},
     begun |-> 0, callers |-> [t \in PrinterThreads |-> NotCalling]]
\* No run yet: no engine, no session
NoRun ==
    [kind |-> "none", stage |-> "idle", session |-> "none",
     is_running |-> FALSE, district |-> "",
     prefilter_skipped |-> 0, engine_skipped |-> 0, reported_skipped |-> 0,
     raised |-> FALSE]

InitWith(calls_args) ==
    /\ today = 1
    /\ stateFile = [f \in Folders |-> NoFile]
    /\ outFiles = [f \in Folders |-> {}]
    /\ calls = 0
    /\ pc = "idle"
    /\ mode = "batch"
    /\ args \in calls_args
    /\ save_folder = SaveFolder("out", TRUE, 1)
    /\ state = NewState("", "", 0)
    /\ already_done = {}
    /\ remaining = <<>>
    /\ stats = NewStats(0, 0)
    /\ futures = <<>>
    /\ doneQueue = <<>>
    /\ completed = 0
    /\ consecutive_failures = 0
    /\ throttle_multiplier = One
    /\ requests = <<>>
    /\ saves = 0
    /\ prev = NoPrev
    /\ crash = NoCrash
    /\ progress = <<>>
    /\ filtered = NoFilter
    /\ dirs = {}
    /\ run = NoRun
    /\ wire = <<>>
    /\ lock = NewLock
    /\ thr = <<>>
    /\ printer = NewPrinter

\* ------------------------------------------------------------------------
\* Adaptive throttle (rationals n/d in lowest terms)
\* ------------------------------------------------------------------------
RECURSIVE Gcd(_, _)
Gcd(a, b) == IF b = 0 THEN a ELSE Gcd(b, a % b)

Times(m, a, b) ==
    LET n == m.n * a
        d == m.d * b
        g == Gcd(n, d)
    IN  [n |-> n \div g, d |-> d \div g]

\* multiplier * 0.9 without the floor
DecayNoFloor(m) == Times(m, 9, 10)

\* max(1.0, multiplier * 0.9)
Decay(m) == LET x == Times(m, 9, 10) IN IF x.n < x.d THEN One ELSE x

\* multiplier * 1.5 without the cap
RaiseNoCap(m) == Times(m, 3, 2)

\* min(5.0, multiplier * 1.5)
Raise(m) == LET x == Times(m, 3, 2) IN IF x.n > 5 * x.d THEN [n |-> 5, d |-> 1] ELSE x

\* _handle_failure raising the multiplier from the fifth failure on
handle_failure_from_fifth(cf, m) == IF cf >= 5 THEN Raise(m) ELSE m

\* _handle_failure: the multiplier after the counter became cf
handle_failure(cf, m) == IF cf > 5 THEN Raise(m) ELSE m

\* ------------------------------------------------------------------------
\* _download_single
\* ------------------------------------------------------------------------
\* str(e) in full
TruncateNot(msg) == msg

\* str(e)[:50]
Truncate(msg) == IF Len(msg) > MsgLimit THEN SubSeq(msg, 1, MsgLimit) ELSE msg

\* The tuple returned when a body of exactly min_content_size bytes counts
\* as empty
download_single_result_inclusive(point_path, r) ==
    IF r.kind = "ok" THEN
        IF r.size <= MinContentSize
        THEN [path |-> point_path, status |-> "empty", size |-> r.size, error |-> <<>>]
        ELSE [path |-> point_path, status |-> "success", size |-> r.size, error |-> <<>>]
    ELSE
        [path |-> point_path, status |-> "failed", size |-> 0, error |-> <<Truncate(r.msg)>>]

\* The tuple returned for a response r
download_single_result(point_path, r) ==
    IF r.kind = "ok" THEN
        IF r.size < MinContentSize
        THEN [path |-> point_path, status |-> "empty", size |-> r.size, error |-> <<>>]
        ELSE [path |-> point_path, status |-> "success", size |-> r.size, error |-> <<>>]
    ELSE IF r.kind = "timeout" THEN
        [path |-> point_path, status |-> "failed", size |-> 0, error |-> <<"Timeout">>]
    ELSE IF r.kind = "http" THEN
        [path |-> point_path, status |-> "failed", size |-> 0, error |-> <<"HTTP " \o r.msg>>]
    ELSE
        [path |-> point_path, status |-> "failed", size |-> 0, error |-> <<Truncate(r.msg)>>]

\* open(filepath, 'wb') created or truncated the file
OpensFile(r) == r.kind \in {"ok", "write"}

\* The pool's work queue is FIFO: the started items are a prefix of the
\* submitted ones, and each start issues one request
Started == Len(requests)
Running == {i \in 1..Started : futures[i].phase = "running"}

\* A pool that starts a thread for every submitted item
PoolUnbounded == TRUE

\* ThreadPoolExecutor(max_workers=self.max_workers): a queued work item is
\* taken only by one of the pool's max_workers threads that is idle
PoolHasIdleThread == Cardinality(Running) < args.max_workers

\* A pool thread takes the oldest queued work item, sleeps the throttle delay
\* and issues session.get
WorkerStart ==
    /\ pc \in {"loop", "psave", "unwind"}
    /\ Started < Len(futures)
    /\ PoolHasIdleThread
    /\ LET i == Started + 1
       IN  /\ futures' = [futures EXCEPT ![i].phase = "running"]
           /\ requests' = Append(requests, remaining[i])
    /\ UNCHANGED <<today, stateFile, outFiles, calls, pc, mode, args,
                   save_folder, state, already_done, remaining, stats,
                   doneQueue, completed, consecutive_failures,
                   throttle_multiplier, saves, prev, crash, progress, filtered, dirs, run, wire,
                   lock, thr, printer>>

\* A worker body that also counts its result into the statistics
AnsweredCounting(i, r) ==
    /\ pc \in {"loop", "psave", "unwind"}
    /\ i \in Running
    /\ LET res == download_single_result(remaining[i], r)
       IN  /\ futures' = [futures EXCEPT ![i] =
                              [phase |-> "done", response |-> r, result |-> res]]
           /\ outFiles' = IF OpensFile(r)
                          THEN [outFiles EXCEPT ![save_folder] = @ \cup {CsvName(remaining[i])}]
                          ELSE outFiles
           /\ IF r.kind = "ok"
              THEN /\ consecutive_failures' = 0
                   /\ throttle_multiplier' = Decay(throttle_multiplier)
              ELSE /\ consecutive_failures' = consecutive_failures + 1
                   /\ throttle_multiplier' =
                          handle_failure(consecutive_failures + 1, throttle_multiplier)
    /\ doneQueue' = Append(doneQueue, i)
    /\ stats' = [stats EXCEPT ![download_single_result(remaining[i], r).status] = @ + 1]
    /\ UNCHANGED <<today, stateFile, calls, pc, mode, args, save_folder, state,
                   already_done, remaining, completed, requests, saves,
                   prev, crash, progress, filtered, dirs, run,
                   lock, thr, printer>>

\* session.get of item i ends with r; the rest of _download_single runs
Answered(i, r) ==
    /\ pc \in {"loop", "psave", "unwind"}
    /\ i \in Running
    /\ LET res == download_single_result(remaining[i], r)
       IN  /\ futures' = [futures EXCEPT ![i] =
                              [phase |-> "done", response |-> r, result |-> res]]
           /\ outFiles' = IF OpensFile(r)
                          THEN [outFiles EXCEPT ![save_folder] = @ \cup {CsvName(remaining[i])}]
                          ELSE outFiles
           /\ IF r.kind = "ok"
              THEN /\ consecutive_failures' = 0
                   /\ throttle_multiplier' = Decay(throttle_multiplier)
              ELSE /\ consecutive_failures' = consecutive_failures + 1
                   /\ throttle_multiplier' =
                          handle_failure(consecutive_failures + 1, throttle_multiplier)
    /\ doneQueue' = Append(doneQueue, i)
    /\ UNCHANGED <<today, stateFile, calls, pc, mode, args, save_folder, state,
                   already_done, remaining, stats, completed, requests, saves,
                   prev, crash, progress, filtered, dirs, run,
                   lock, thr, printer>>

\* The request of item i is answered by r
WorkerFinish(i, r) ==
    /\ r \in ResponsesFor(remaining[i])
    /\ Answered(i, r)
    /\ UNCHANGED wire

\* The retries the session has left for the request of item i
TotalLeft(i) == MaxRetries - Len(wire[i].got)

\* The server answers the request of item i with a, and the session sends
\* the request again
SessionRetries(i, a) ==
    /\ pc \in {"loop", "psave", "unwind"}
    /\ i \in Running
    /\ urlopen(TotalLeft(i), a) = "retry"
    /\ wire' = [wire EXCEPT ![i].got = Append(@, a)]
    /\ UNCHANGED <<today, stateFile, outFiles, calls, pc, mode, args,
                   save_folder, state, already_done, remaining, stats,
                   futures, doneQueue, completed, consecutive_failures,
                   throttle_multiplier, requests, saves, prev, crash,
                   progress, filtered, dirs, run, lock, thr, printer>>

\* The server answers the request of item i with a, and session.get returns
\* the response or raises RetryError
WorkerFinishHttp(i, a) ==
    LET outcome == urlopen(TotalLeft(i), a)
    IN  /\ outcome # "retry"
        /\ Answered(i, HttpResponse(outcome, a.status))
        /\ wire' = [wire EXCEPT ![i] = [got |-> Append(@.got, a),
                                        outcome |-> outcome]]

\* ------------------------------------------------------------------------
\* download_batch and download_batch_with_resume
\* ------------------------------------------------------------------------
Truthy(error) == error # <<>> /\ error[1] # ""

\* "error or 'unknown'"
OrUnknown(error) == IF Truthy(error) THEN error[1] ELSE "unknown"

\* CountResult with the failure counted only when it carries a message
CountResultNoMessage(st, res) ==
    IF res.status = "success" THEN
        [st EXCEPT !.success = @ + 1, !.bytes_downloaded = @ + res.size]
    ELSE IF res.status = "empty" THEN
        [st EXCEPT !.empty = @ + 1, !.bytes_downloaded = @ + res.size]
    ELSE IF Truthy(res.error) THEN
        [st EXCEPT !.failed = @ + 1,
                   !.errors = Append(@, <<res.path, res.error[1]>>)]
    ELSE st

\* The statistics after the result res was consumed (both loops)
CountResult(st, res) ==
    IF res.status = "success" THEN
        [st EXCEPT !.success = @ + 1, !.bytes_downloaded = @ + res.size]
    ELSE IF res.status = "empty" THEN
        [st EXCEPT !.empty = @ + 1, !.bytes_downloaded = @ + res.size]
    ELSE
        [st EXCEPT !.failed = @ + 1,
                   !.errors = IF Truthy(res.error)
                              THEN Append(@, <<res.path, res.error[1]>>) ELSE @]

\* RecordResult with an empty result recorded in state.empty only
RecordResultEmptyNotCompleted(st, res, day) ==
    IF res.status = "success" THEN
        [st EXCEPT !.completed = Append(@, res.path)]
    ELSE IF res.status = "empty" THEN
        [st EXCEPT !.empty = Append(@, res.path)]
    ELSE
        [st EXCEPT !.failed = Append(@, [point |-> res.path,
                                         error |-> OrUnknown(res.error),
                                         time |-> isoformat(day)])]

\* The DownloadState when every consumed item is marked completed
RecordResultAllCompleted(st, res, day) ==
    IF res.status = "success" THEN
        [st EXCEPT !.completed = Append(@, res.path)]
    ELSE IF res.status = "empty" THEN
        [st EXCEPT !.empty = Append(@, res.path),
                   !.completed = Append(@, res.path)]
    ELSE
        [st EXCEPT !.completed = Append(@, res.path),
                   !.failed = Append(@, [point |-> res.path,
                                         error |-> OrUnknown(res.error),
                                         time |-> isoformat(day)])]

\* The DownloadState after the result res was consumed (resume loop)
RecordResult(st, res, day) ==
    IF res.status = "success" THEN
        [st EXCEPT !.completed = Append(@, res.path)]
    ELSE IF res.status = "empty" THEN
        [st EXCEPT !.empty = Append(@, res.path),
                   !.completed = Append(@, res.path)]
    ELSE
        [st EXCEPT !.failed = Append(@, [point |-> res.path,
                                         error |-> OrUnknown(res.error),
                                         time |-> isoformat(day)])]

\* What the caller of the call that ended (or was killed) has seen
Seen ==
    IF pc = "done"
    THEN [returned |-> TRUE, mode |-> mode,
          folder |-> save_folder, skipped |-> stats.skipped,
          success |-> stats.success, empty |-> stats.empty,
          completed |-> IF mode = "resume" THEN Range(state.completed) ELSE {}]
    ELSE NoPrev

Submit(list) ==
    /\ remaining' = list
    /\ futures' = [i \in 1..Len(list) |-> Queued]
    /\ doneQueue' = <<>>
    /\ completed' = 0
    /\ requests' = <<>>
    /\ saves' = 0
    /\ consecutive_failures' = 0
    /\ throttle_multiplier' = One
    /\ progress' = <<>>
    /\ wire' = [i \in 1..Len(list) |-> NoWire]
    /\ thr' = [i \in 1..Len(list) |-> NoThread]
    /\ lock' = NewLock
    /\ pc' = IF list = <<>> THEN "done" ELSE "loop"

\* An exception leaves the call before anything was submitted
Escapes ==
    /\ state' = NewState("", "", 0)
    /\ already_done' = {}
    /\ stats' = NewStats(0, 0)
    /\ remaining' = <<>>
    /\ futures' = <<>>
    /\ doneQueue' = <<>>
    /\ completed' = 0
    /\ requests' = <<>>
    /\ saves' = 0
    /\ consecutive_failures' = 0
    /\ throttle_multiplier' = One
    /\ progress' = <<>>
    /\ wire' = <<>>
    /\ thr' = <<>>
    /\ lock' = NewLock
    /\ pc' = "raised"

\* os.makedirs(save_folder, exist_ok=True): the folder and its parent exist
makedirs(folder) == dirs \cup {folder, [folder EXCEPT !.day = 0]}

\* DownloadEngine(...).download_batch(url_list, output_folder, date_subfolder)
\* up to the submission of the futures
download_batch ==
    /\ pc \in {"idle", "done", "raised"}
    /\ calls < CallLimit(args)
    /\ calls' = calls + 1
    /\ prev' = Seen
    /\ mode' = "batch"
    /\ save_folder' = SaveFolder(args.output_folder, args.date_subfolder, today)
    /\ stats' = NewStats(Len(args.url_list), 0)
    /\ state' = NewState("", "", 0)
    /\ already_done' = {}
    /\ Submit(args.url_list)
    /\ dirs' = IF args.url_list = <<>> THEN dirs
               ELSE makedirs(SaveFolder(args.output_folder, args.date_subfolder, today))
    /\ UNCHANGED <<today, stateFile, outFiles, args, crash, filtered, run,
                   printer>>

\* DownloadEngine(...).download_batch_with_resume(url_list, output_folder,
\* district, date_subfolder) up to the submission of the futures
resume_call(url_list, district) ==
    /\ pc \in {"idle", "done", "raised"}
    /\ calls < CallLimit(args)
    /\ calls' = calls + 1
    /\ prev' = Seen
    /\ mode' = "resume"
    /\ LET folder == SaveFolder(args.output_folder, args.date_subfolder, today)
           loaded == load(stateFile[folder])
           st == IF loaded.ok THEN loaded.st
                 ELSE NewState(district, isoformat(today), Len(url_list))
           done == completed_set(st)
           rem == SelectSeq2(url_list, done)
           skipped_by_state == Len(url_list) - Len(rem)
       IN  /\ save_folder' = folder
           /\ dirs' = makedirs(folder)
           /\ IF completed_set_raises(stateFile[folder])
              THEN Escapes
              ELSE /\ state' = st
                   /\ already_done' = done
                   /\ stats' = NewStats(Len(rem), skipped_by_state)
                   /\ Submit(rem)
    /\ UNCHANGED <<today, stateFile, outFiles, args, crash, printer>>

\* The call on the argument list of the behaviour, made by a caller that is
\* not modelled further
download_batch_with_resume ==
    /\ resume_call(args.url_list, args.district)
    /\ UNCHANGED <<filtered, run>>

\* The arguments of one progress_callback invocation
CallbackArgsOffByOne(k, total, res) ==
    [completed |-> k - 1, total |-> total, point_path |-> res.path,
     status |-> res.status]

\* progress_callback(completed, stats.total, point_path, status)
CallbackArgs(k, total, res) ==
    [completed |-> k, total |-> total, point_path |-> res.path,
     status |-> res.status]

\* The end of an iteration: "if self.progress_callback:" invokes the
\* callback, which returns or raises; an exception leaves the loop and the
\* "with ThreadPoolExecutor" block, whose exit waits for the workers
Report(k, res) ==
    /\ doneQueue' = Tail(doneQueue)
    /\ IF args.progress_callback = "None"
       THEN /\ progress' = progress
            /\ pc' = "loop"
       ELSE /\ progress' = Append(progress, CallbackArgs(k, stats.total, res))
            /\ pc' \in IF run.kind = "gui" THEN {"loop"} ELSE {"loop", "unwind"}

\* One iteration of "for future in as_completed(futures)"; with the
\* periodic save it runs up to open(state_path, 'w'). The future stays at
\* the head of doneQueue until its iteration ends.
Consume ==
    /\ pc = "loop"
    /\ doneQueue # <<>>
    /\ LET i == Head(doneQueue)
           res == futures[i].result
       IN  /\ futures' = [futures EXCEPT ![i].phase = "consumed"]
           /\ stats' = CountResult(stats, res)
           /\ state' = IF mode = "resume" THEN RecordResult(state, res, today)
                       ELSE state
    /\ completed' = completed + 1
    /\ IF mode = "resume" /\ (completed + 1) % SaveEvery = 0
       THEN /\ stateFile' = [stateFile EXCEPT ![save_folder] = TruncatedFile]
            /\ pc' = "psave"
            /\ UNCHANGED <<doneQueue, progress>>
       ELSE /\ UNCHANGED stateFile
            /\ Report(completed + 1, futures[Head(doneQueue)].result)
    /\ UNCHANGED <<today, outFiles, calls, mode, args, save_folder,
                   already_done, remaining, consecutive_failures,
                   throttle_multiplier, requests, saves, prev, crash,
                   filtered, dirs, run, wire, lock, thr, printer>>

\* The periodic state.save(state_path) completes: json.dump and close
PeriodicSave ==
    /\ pc = "psave"
    /\ stateFile' = [stateFile EXCEPT ![save_folder] = WrittenFile(state)]
    /\ Report(completed, futures[Head(doneQueue)].result)
    /\ UNCHANGED <<today, outFiles, calls, mode, args, save_folder, state,
                   already_done, remaining, stats, futures,
                   completed, consecutive_failures, throttle_multiplier,
                   requests, prev, crash, filtered, dirs, run, wire,
                   lock, thr, printer>>
    /\ saves' = saves + 1

\* The final state.save(state_path) raises OSError (the disk is full) after
\* open() has truncated the file; the exception leaves the call
FinalSaveFails ==
    /\ pc = "fsave"
    /\ pc' = "raised"
    /\ UNCHANGED <<today, stateFile, outFiles, calls, mode, args, save_folder,
                   state, already_done, remaining, stats, futures, doneQueue,
                   completed, consecutive_failures, throttle_multiplier,
                   requests, saves, prev, crash, progress, filtered, dirs,
                   run, wire, lock, thr, printer>>

\* The executor's shutdown has waited for every submitted work item; the
\* callback's exception leaves the call
Unwound ==
    /\ pc = "unwind"
    /\ \A i \in 1..Len(futures) : futures[i].phase \in {"done", "consumed"}
    /\ pc' = "raised"
    /\ UNCHANGED <<today, stateFile, outFiles, calls, mode, args, save_folder,
                   state, already_done, remaining, stats, futures, doneQueue,
                   completed, consecutive_failures, throttle_multiplier,
                   requests, saves, prev, crash, progress, filtered, dirs, run, wire,
                   lock, thr, printer>>

AllConsumed == completed = Len(futures)

\* The loop and the executor are left; download_batch returns,
\* download_batch_with_resume opens the state file for the final save
LoopExit ==
    /\ pc = "loop"
    /\ AllConsumed
    /\ IF mode = "resume"
       THEN /\ stateFile' = [stateFile EXCEPT ![save_folder] = TruncatedFile]
            /\ pc' = "fsave"
       ELSE /\ UNCHANGED stateFile
            /\ pc' = "done"
    /\ UNCHANGED <<today, outFiles, calls, mode, args, save_folder, state,
                   already_done, remaining, stats, futures, doneQueue,
                   completed, consecutive_failures, throttle_multiplier,
                   requests, saves, prev, crash, progress, filtered, dirs, run, wire,
                   lock, thr, printer>>

\* The final state.save(state_path) completes and the call returns stats
FinalSave ==
    /\ pc = "fsave"
    /\ stateFile' = [stateFile EXCEPT ![save_folder] = WrittenFile(state)]
    /\ pc' = "done"
    /\ UNCHANGED <<today, outFiles, calls, mode, args, save_folder, state,
                   already_done, remaining, stats, futures, doneQueue,
                   completed, consecutive_failures, throttle_multiplier,
                   requests, prev, crash, progress, filtered, dirs, run, wire,
                   lock, thr, printer>>
    /\ saves' = saves + 1

\* ------------------------------------------------------------------------
\* filter_existing_files
\* ------------------------------------------------------------------------
\* f.endswith('.csv')
EndsWithCsv(name) ==
    /\ Len(name) >= 4
    /\ SubSeq(name, Len(name) - 3, Len(name)) = <<".", "c", "s", "v">>

RECURSIVE FilterLoop(_, _)
\* The loop over url_list: the items kept and the number skipped
FilterLoop(url_list, existing) ==
    IF url_list = <<>> THEN [items |-> <<>>, skipped |-> 0]
    ELSE LET rest == FilterLoop(Tail(url_list), existing)
         IN  IF CsvName(Head(url_list)) \in existing
             THEN [items |-> rest.items, skipped |-> rest.skipped + 1]
             ELSE [items |-> <<Head(url_list)>> \o rest.items,
                   skipped |-> rest.skipped]

\* filter_existing_files without the force shortcut
filter_existing_files_ignoring_force(url_list, output_folder, force) ==
    LET today_folder == [base |-> output_folder, day |-> today]
    IN  IF today_folder \notin dirs THEN [items |-> url_list, skipped |-> 0]
        ELSE FilterLoop(url_list,
                        {f \in outFiles[today_folder] : EndsWithCsv(f)})

\* filter_existing_files(url_list, output_folder, force), on the disk and
\* the clock as they are
filter_existing_files(url_list, output_folder, force) ==
    LET today_folder == [base |-> output_folder, day |-> today]
    IN  IF force THEN [items |-> url_list, skipped |-> 0]
        ELSE IF today_folder \notin dirs THEN [items |-> url_list, skipped |-> 0]
        ELSE FilterLoop(url_list,
                        {f \in outFiles[today_folder] : EndsWithCsv(f)})

\* A caller filters its item list before a batch call
FilterExisting(force) ==
    /\ pc \in {"idle", "done", "raised"}
    /\ LET r == filter_existing_files(args.url_list, args.output_folder, force)
       IN  filtered' = [called |-> TRUE, force |-> force,
                        items |-> r.items, skipped |-> r.skipped]
    /\ UNCHANGED <<today, stateFile, outFiles, calls, pc, mode, args,
                   save_folder, state, already_done, remaining, stats,
                   futures, doneQueue, completed, consecutive_failures,
                   throttle_multiplier, requests, saves, prev, crash,
                   progress, dirs, run, wire, lock, thr, printer>>

\* ------------------------------------------------------------------------
\* Download runs: the callers of the engine
\* ------------------------------------------------------------------------
\* The sites the user can choose in the GUI
Districts == {"D1", "D2"}

\* The engine's variables are left as they are
EngineUntouched ==
    UNCHANGED <<today, stateFile, outFiles, calls, pc, mode, args,
                save_folder, state, already_done, remaining, stats, futures,
                doneQueue, completed, consecutive_failures,
                throttle_multiplier, requests, saves, prev, crash, progress,
                dirs, wire, lock, thr, printer>>

\* A run of `kind` for `district` whose pre-filter skipped `skipped` items
\* and left a list that is empty, or not
StartedRun(kind, district, skipped, empty) ==
    [kind |-> kind, stage |-> IF empty THEN "ended" ELSE "engine",
     session |-> IF empty THEN "none" ELSE "open",
     is_running |-> ~empty, district |-> district,
     prefilter_skipped |-> skipped, engine_skipped |-> 0,
     reported_skipped |-> IF empty /\ kind = "cli" THEN skipped ELSE 0,
     raised |-> FALSE]

\* A caller filters the item list and, unless nothing is left, builds an
\* engine (which opens its session) and calls download_batch_with_resume on
\* the filtered list
RunStarts(kind, district, force) ==
    /\ run.stage # "engine"
    /\ pc \in {"idle", "done", "raised"}
    /\ LET f == filter_existing_files(args.url_list, args.output_folder, force)
       IN  /\ filtered' = [called |-> TRUE, force |-> force,
                            items |-> f.items, skipped |-> f.skipped]
           /\ run' = StartedRun(kind, district, f.skipped, f.items = <<>>)
           /\ IF f.items = <<>>
              THEN EngineUntouched
              ELSE resume_call(f.items, district)

\* NiagaraGUI._download_thread for the district chosen, with the one output
\* directory of the GUI, up to the submission of the futures
GuiRun(district) == RunStarts("gui", district, FALSE)

\* NiagaraGUI._stop_download: the user presses Stop
StopDownload ==
    /\ run.kind = "gui"
    /\ run.stage = "engine"
    /\ run.is_running
    /\ run' = [run EXCEPT !.is_running = FALSE]
    /\ EngineUntouched
    /\ UNCHANGED filtered

\* NiagaraGUI._download_thread after the batch call: engine.close() and the
\* report when it returned, the except clause when it raised
GuiRunEnd ==
    /\ run.kind = "gui"
    /\ run.stage = "engine"
    /\ pc \in {"done", "raised"}
    /\ run' = [run EXCEPT !.stage = "ended",
                          !.is_running = FALSE,
                          !.session = IF pc = "done" THEN "closed" ELSE @,
                          !.engine_skipped = IF pc = "done" THEN stats.skipped ELSE 0,
                          !.reported_skipped = IF pc = "done" THEN stats.skipped ELSE 0,
                          !.raised = (pc = "raised")]
    /\ EngineUntouched
    /\ UNCHANGED filtered

\* download_niagara_fast.process_district for the district of the
\* behaviour, up to the submission of the futures
CliRun(force) == RunStarts("cli", args.district, force)

\* process_district after the batch call: the "with" statement closes the
\* engine, and stats.skipped = skipped when the call returned
CliRunEnd ==
    /\ run.kind = "cli"
    /\ run.stage = "engine"
    /\ pc \in {"done", "raised"}
    /\ run' = [run EXCEPT !.stage = "ended",
                          !.is_running = FALSE,
                          !.session = "closed",
                          !.engine_skipped = IF pc = "done" THEN stats.skipped ELSE 0,
                          !.reported_skipped = IF pc = "done" THEN run.prefilter_skipped ELSE 0,
                          !.raised = (pc = "raised")]
    /\ EngineUntouched
    /\ UNCHANGED filtered

\* ------------------------------------------------------------------------
\* Environment
\* ------------------------------------------------------------------------
\* Point paths whose response this call has fetched and written to disk
FetchedAndWritten ==
    {remaining[i] : i \in {j \in 1..Started :
        /\ futures[j].phase \in {"done", "consumed"}
        /\ futures[j].result.status \in {"success", "empty"}}}

\* The process is killed during a batch call: memory is lost, the disk stays
Interrupt ==
    /\ pc \in {"loop", "psave", "fsave", "unwind"}
    /\ crash' = [happened |-> TRUE, folder |-> save_folder,
                 written |-> FetchedAndWritten]
    /\ prev' = Seen
    /\ pc' = "idle"
    /\ state' = NewState("", "", 0)
    /\ already_done' = {}
    /\ remaining' = <<>>
    /\ stats' = NewStats(0, 0)
    /\ futures' = <<>>
    /\ doneQueue' = <<>>
    /\ completed' = 0
    /\ consecutive_failures' = 0
    /\ throttle_multiplier' = One
    /\ requests' = <<>>
    /\ saves' = 0
    /\ progress' = <<>>
    /\ filtered' = NoFilter
    /\ UNCHANGED <<today, stateFile, outFiles, calls, mode, args, save_folder,
                   dirs, run, wire, lock, thr, printer>>

\* Something else than the engine leaves a state file in today's folder
ForeignStateFile(doc) ==
    /\ pc \in {"idle", "done", "raised"}
    /\ calls < CallLimit(args)
    /\ stateFile' = [stateFile EXCEPT
           ![SaveFolder(args.output_folder, args.date_subfolder, today)] =
               ForeignFile(doc)]
    /\ UNCHANGED <<today, outFiles, calls, pc, mode, args, save_folder,
                   state, already_done, remaining, stats, futures, doneQueue,
                   completed, consecutive_failures, throttle_multiplier,
                   requests, saves, prev, crash, progress, filtered, dirs, run, wire,
                   lock, thr, printer>>

\* The calendar day changes
Midnight ==
    /\ pc \in {"idle", "done", "raised"}
    /\ calls > 0
    /\ today < MaxDay
    /\ today' = today + 1
    /\ UNCHANGED <<stateFile, outFiles, calls, pc, mode, args, save_folder,
                   state, already_done, remaining, stats, futures, doneQueue,
                   completed, consecutive_failures, throttle_multiplier,
                   requests, saves, prev, crash, progress, filtered, dirs, run, wire,
                   lock, thr, printer>>

Work(R) ==
    \/ WorkerStart
    \/ \E i \in Running, r \in R : WorkerFinish(i, r)
    \/ Consume
    \/ LoopExit

Init == InitWith(SmallCalls)

\* download_batch_with_resume on short lists, with interruptions
Next ==
    \/ download_batch_with_resume
    \/ Work(CoreResponses)
    \/ FinalSave
    \/ Interrupt

Spec == Init /\ [][Next]_vars

\* The same over several calendar days
NextDays ==
    \/ Next
    \/ Midnight

SpecDays == Init /\ [][NextDays]_vars

\* download_batch on short lists
NextBatch ==
    \/ download_batch
    \/ Work(Responses)

SpecBatch == Init /\ [][NextBatch]_vars

\* Both batch calls on short lists while the disk refuses files
NextDisk ==
    \/ download_batch
    \/ download_batch_with_resume
    \/ Work(DiskResponses)
    \/ FinalSave

SpecDisk == Init /\ [][NextDisk]_vars

\* download_batch against a server that answers with status codes
RetryCalls ==
    [url_list : {<<IdA>>, <<IdA, IdB>>}, output_folder : {"out"},
     date_subfolder : {TRUE}, district : {"D1"}, max_workers : {1},
     progress_callback : {"None"}]

InitRetry == InitWith(RetryCalls)

NextRetry ==
    \/ calls < RetryMaxCalls /\ download_batch
    \/ WorkerStart
    \/ \E i \in Running, a \in Answers : SessionRetries(i, a)
    \/ \E i \in Running, a \in Answers : WorkerFinishHttp(i, a)
    \/ Consume
    \/ LoopExit

SpecRetry == InitRetry /\ [][NextRetry]_vars

\* URLGenerator.generate on the point list files
Generate ==
    /\ ~args.generated.called
    /\ args' = [args EXCEPT !.generated = generate(load_point_list(args.point_file))]
    /\ UNCHANGED <<today, stateFile, outFiles, calls, pc, mode, save_folder,
                   state, already_done, remaining, stats, futures, doneQueue,
                   completed, consecutive_failures, throttle_multiplier,
                   requests, saves, prev, crash, progress, filtered, dirs,
                   run, wire, lock, thr, printer>>

InitPoints == InitWith(GeneratorCalls)

NextPoints == Generate

SpecPoints == InitPoints /\ [][NextPoints]_vars

\* download_batch on one-item lists over the point paths NamePaths
InitNames == InitWith(NameCalls)

SpecNames == InitNames /\ [][NextBatch]_vars

\* download_batch on a list long enough for the throttle to rise to its cap
\* and to decay back
NextThrottle ==
    \/ download_batch
    \/ Work(Responses)

InitThrottle == InitWith(ThrottleCalls)

SpecThrottle == InitThrottle /\ [][NextThrottle]_vars

\* filter_existing_files between download_batch calls, over several days
NextFilter ==
    \/ \E force \in BOOLEAN : FilterExisting(force)
    \/ download_batch
    \/ Work(CoreResponses)
    \/ Midnight

SpecFilter == Init /\ [][NextFilter]_vars

\* Both batch calls of an engine with a progress callback, which returns
\* or raises at each invocation
ProgressResponses == {r \in Responses : r.kind \in {"ok", "timeout"}}

NextProgress ==
    \/ download_batch
    \/ download_batch_with_resume
    \/ Work(ProgressResponses)
    \/ FinalSave
    \/ Unwound

InitProgress == InitWith(ProgressCalls)

SpecProgress == InitProgress /\ [][NextProgress]_vars

\* Download runs of the GUI on short lists; the disk can fill up before the
\* final save
GuiCalls ==
    [url_list : {<<IdA>>, <<IdA, IdB>>}, output_folder : {"out"},
     date_subfolder : {TRUE}, district : {"D1"}, max_workers : 1..MaxWorkers,
     progress_callback : {"callable"}]

InitGui == InitWith(GuiCalls)

NextGui ==
    \/ \E d \in Districts : GuiRun(d)
    \/ StopDownload
    \/ GuiRunEnd
    \/ Work(ProgressResponses)
    \/ FinalSave
    \/ FinalSaveFails

SpecGui == InitGui /\ [][NextGui]_vars

\* Download runs of download_niagara_fast on short lists, with and without
\* --force
NextCli ==
    \/ \E force \in BOOLEAN : CliRun(force)
    \/ CliRunEnd
    \/ Work(ProgressResponses)
    \/ FinalSave
    \/ Unwound

SpecCli == InitGui /\ [][NextCli]_vars

\* download_batch_with_resume on the long list, with interruptions
NextBulk ==
    \/ download_batch_with_resume
    \/ Work(Responses)
    \/ PeriodicSave
    \/ FinalSave
    \/ Interrupt

InitBulk == InitWith(BulkCalls)

SpecBulk == InitBulk /\ [][NextBulk]_vars

\* download_batch_with_resume on short lists, with state files the engine
\* did not write
NextSchema ==
    \/ \E doc \in ForeignDocs : ForeignStateFile(doc)
    \/ download_batch_with_resume
    \/ Work(CoreResponses)
    \/ FinalSave

SpecSchema == Init /\ [][NextSchema]_vars

\* ------------------------------------------------------------------------
\* Properties
\* ------------------------------------------------------------------------
Returned == pc = "done"
Counted == stats.success + stats.failed + stats.empty

\* The point paths of the consumed items whose status is in the set sts
ConsumedWith(sts) ==
    {remaining[i] : i \in {j \in 1..Len(futures) :
        futures[j].phase = "consumed" /\ futures[j].result.status \in sts}}

\* C1: when download_batch returns for a non-empty list, success + failed +
\* empty = total and total is the number of items submitted.
C1_BatchCountsAddUp ==
    (Returned /\ mode = "batch" /\ args.url_list # <<>>) =>
        /\ Counted = stats.total
        /\ stats.total = Len(args.url_list)

C1_Witness ==
    /\ Returned /\ mode = "batch"
    /\ Len(args.url_list) = 2
    /\ stats.success = 1
    /\ stats.failed = 1
    /\ stats.errors = <<>>

\* C2: a failing item never aborts the batch: the call returns with every
\* item counted in a terminal outcome, and the error of every failed item
\* is recorded in stats.errors.
C2_EveryFailureRecorded ==
    Returned =>
        /\ Counted = stats.total
        /\ \A i \in 1..Len(futures) :
              futures[i].result.status = "failed" =>
                  \E k \in 1..Len(stats.errors) : stats.errors[k][1] = remaining[i]

\* The number of items of a list whose point path is in the set S
CountIn(list, S) == Cardinality({i \in 1..Len(list) : list[i] \in S})

Distinct(list) == \A i, j \in 1..Len(list) : i # j => list[i] # list[j]

\* The completed identifiers a state file holds, read off its JSON document
FileCompleted(file) ==
    IF file.exists /\ file.valid
    THEN {file.doc.v.completed.v[i].v : i \in 1..Len(file.doc.v.completed.v)}
    ELSE {}

\* The failed identifiers a state file holds
FileFailed(file) ==
    IF file.exists /\ file.valid
    THEN {file.doc.v.failed.v[i].v.point.v : i \in 1..Len(file.doc.v.failed.v)}
    ELSE {}

\* Two calls of download_batch_with_resume in succession, both returned
TwoResumeCalls == Returned /\ mode = "resume" /\ prev.returned /\ prev.mode = "resume"

\* C3 as stated: of two successive calls with identical inputs, the second
\* call's skipped count equals the first call's success + empty count, and
\* the second call requests no identifier the first call completed.
C3_SkippedEqualsSuccessPlusEmpty ==
    TwoResumeCalls =>
        /\ stats.skipped = prev.success + prev.empty
        /\ Range(requests) \cap prev.completed = {}

\* C3 amended: when both calls use the same state file, the second call's
\* skipped count is the number of items whose identifier is in the completed
\* set the first call left (for pairwise distinct identifiers: the first
\* call's skipped + success + empty), and it requests none of them.
C3_SkippedEqualsCompletedBefore ==
    (TwoResumeCalls /\ prev.folder = save_folder) =>
        /\ stats.skipped = CountIn(args.url_list, prev.completed)
        /\ Distinct(args.url_list) =>
              stats.skipped = prev.skipped + prev.success + prev.empty
        /\ Range(requests) \cap prev.completed = {}

C3_Witness ==
    /\ TwoResumeCalls /\ prev.folder = save_folder
    /\ Distinct(args.url_list)
    /\ prev.skipped = 1
    /\ prev.success = 1
    /\ stats.skipped = 2

\* C4: download_batch_with_resume requests only items whose identifier is
\* not in the completed set of the state file it loaded, and skipped is the
\* number of items of the list whose identifier is in that set.
C4_RequestsOnlyNotCompleted ==
    mode = "resume" =>
        /\ pc = "loop" =>
              /\ Range(requests) \cap FileCompleted(stateFile[save_folder]) = {}
              /\ stats.skipped =
                     CountIn(args.url_list, FileCompleted(stateFile[save_folder]))
        /\ pc \in {"loop", "fsave", "done"} =>
              /\ Range(requests) \cap already_done = {}
              /\ stats.skipped = CountIn(args.url_list, already_done)
        /\ Returned => Len(requests) = Len(args.url_list) - stats.skipped

C4_Witness ==
    /\ Returned /\ mode = "resume"
    /\ Len(args.url_list) = 2
    /\ stats.skipped = 1
    /\ Len(requests) = 1

\* The items of a list whose identifier is not in S, in order
NotIn(list, S) ==
    LET keep == {i \in 1..Len(list) : list[i] \notin S}
        nth(k) == CHOOSE i \in keep : Cardinality({j \in keep : j < i}) = k - 1
    IN  [k \in 1..Cardinality(keep) |-> list[nth(k)]]

\* The entries this call appended to state.completed
NewlyCompleted == NotIn(state.completed, already_done)

\* C5: every item whose outcome is success or empty is added to the
\* completed list, and no entry is added for an item whose outcome is
\* failed: an identifier none of whose items succeeded is not completed.
C5_CompletedIffSuccessOrEmpty ==
    (mode = "resume" /\ pc \in {"loop", "fsave", "done"}) =>
        /\ Range(NewlyCompleted) = ConsumedWith({"success", "empty"})
        /\ Len(NewlyCompleted) = stats.success + stats.empty
        /\ Range(state.completed) = already_done \cup ConsumedWith({"success", "empty"})

C5_Witness ==
    /\ Returned /\ mode = "resume"
    /\ stats.empty = 1
    /\ stats.failed = 1
    /\ Len(NewlyCompleted) = 1

\* C6: within one call each item is requested at most once, and a call
\* requests every identifier of the list that is not in the persisted
\* completed set, the identifiers an earlier run failed on included.
C6_EachItemOnceFailedRetried ==
    mode = "resume" =>
        /\ pc = "loop" =>
              /\ remaining = NotIn(args.url_list, FileCompleted(stateFile[save_folder]))
              /\ \A p \in FileFailed(stateFile[save_folder]) :
                    (p \in Range(args.url_list)
                        /\ p \notin FileCompleted(stateFile[save_folder]))
                    => p \in Range(remaining)
        /\ pc \in {"loop", "fsave", "done"} =>
              requests = SubSeq(remaining, 1, Len(requests))
        /\ Returned => requests = remaining
        /\ (Returned /\ saves = 0) =>
              Range(args.url_list) \subseteq FileCompleted(stateFile[save_folder])

C6_Witness ==
    /\ Returned /\ mode = "resume"
    /\ Len(state.failed) > stats.failed
    /\ state.failed[1].point \in Range(requests)
    /\ stats.success = 1

\* The next run after an interruption, on the interrupted run's folder
NextRunAfterCrash ==
    /\ crash.happened
    /\ mode = "resume"
    /\ pc \in {"loop", "psave", "fsave", "done"}
    /\ save_folder = crash.folder

\* C7: after an interruption at any point, the next run re-fetches at most
\* 49 items that the interrupted run had already fetched and written.
C7_AtMost49Refetched ==
    NextRunAfterCrash =>
        Cardinality(Range(requests) \cap crash.written) <= SaveEvery - 1

\* C8 as stated: the state file is written after every 50th consumed
\* completion and once more before every return, so that on every normal
\* return it exists and equals the in-memory state.
C8_SavedOnEveryReturn ==
    (Returned /\ mode = "resume") =>
        /\ saves >= 1
        /\ load(stateFile[save_folder]) = [ok |-> TRUE, st |-> state]

\* C8 amended: the state file is written after every 50th consumed
\* completion and once more before the return of a call that had at least
\* one item left to download; then it equals the in-memory state and holds
\* every identifier classified success or empty. A call with nothing left
\* to download returns without writing the file.
C8_SavedWhenWorkWasDone ==
    mode = "resume" =>
        /\ (pc = "loop" /\ completed > 0 /\ completed % SaveEvery = 0) =>
              load(stateFile[save_folder]) = [ok |-> TRUE, st |-> state]
        /\ pc \in {"loop", "fsave"} => saves = completed \div SaveEvery
        /\ (Returned /\ remaining # <<>>) =>
              /\ saves = (Len(remaining) \div SaveEvery) + 1
              /\ load(stateFile[save_folder]) = [ok |-> TRUE, st |-> state]
              /\ ConsumedWith({"success", "empty"})
                     \subseteq FileCompleted(stateFile[save_folder])
        /\ (Returned /\ remaining = <<>>) => saves = 0

C8_Witness ==
    /\ Returned /\ mode = "resume"
    /\ completed > SaveEvery
    /\ saves = 2
    /\ Cardinality(FileCompleted(stateFile[save_folder])) = completed

\* C9: a state saved and loaded again is the state that was saved, in its
\* completed, failed and empty identifiers and in district, date_started
\* and total_points; so is the file a returning call has left.
C9_SaveLoadRoundTrip ==
    mode = "resume" =>
        /\ load(WrittenFile(state)) = [ok |-> TRUE, st |-> state]
        /\ (Returned /\ remaining # <<>>) =>
              /\ load(stateFile[save_folder]).ok
              /\ load(stateFile[save_folder]).st.completed = state.completed
              /\ load(stateFile[save_folder]).st.failed = state.failed
              /\ load(stateFile[save_folder]).st.empty = state.empty
              /\ load(stateFile[save_folder]).st.district = state.district
              /\ load(stateFile[save_folder]).st.date_started = state.date_started
              /\ load(stateFile[save_folder]).st.total_points = state.total_points

C9_Witness ==
    /\ Returned /\ mode = "resume"
    /\ saves = 1
    /\ Len(state.completed) = 2
    /\ Len(state.empty) = 1
    /\ Len(state.failed) = 1
    /\ state.failed[1].error = "unknown"

InvalidJson(file) == file.exists /\ ~file.valid

\* C10: when the state file holds invalid JSON, load returns no state and
\* the call processes every item of the list as a first run does.
C10_InvalidJsonIsFreshRun ==
    (mode = "resume" /\ pc = "loop" /\ InvalidJson(stateFile[save_folder])) =>
        /\ ~load(stateFile[save_folder]).ok
        /\ remaining = args.url_list
        /\ stats.skipped = 0
        /\ stats.total = Len(args.url_list)
        /\ state.district = args.district
        /\ state.total_points = Len(args.url_list)
        /\ Len(state.completed) = stats.success + stats.empty
        /\ Len(state.failed) = stats.failed
        /\ AllConsumed => (Counted = Len(args.url_list) /\ requests = args.url_list)

C10_Witness ==
    /\ mode = "resume" /\ pc = "loop"
    /\ InvalidJson(stateFile[save_folder])
    /\ AllConsumed
    /\ Len(args.url_list) = 2
    /\ stats.success = 1

\* A state file that is valid JSON and is not the JSON of a DownloadState
SchemaMismatch(file) ==
    /\ file.exists
    /\ file.valid
    /\ \/ file.doc.t # "object"
       \/ ~(DOMAIN file.doc.v \subseteq StateFields)
       \/ file.doc.v.completed.t # "array"

\* C11: a state file that is valid JSON and does not match the schema is
\* treated as no prior state: no exception leaves the call, every item of
\* the list is processed and nothing is skipped.
C11_SchemaMismatchIsFreshRun ==
    (mode = "resume" /\ pc \in {"loop", "raised"}
        /\ SchemaMismatch(stateFile[save_folder])) =>
        /\ pc # "raised"
        /\ remaining = args.url_list
        /\ stats.skipped = 0
        /\ stats.total = Len(args.url_list)

\* The futures whose _download_single has returned
Finished == {i \in 1..Len(futures) : futures[i].phase \in {"done", "consumed"}}

\* C12: every item gets exactly one outcome: success exactly when the
\* response was fetched and written with a body of at least
\* min_content_size bytes, empty exactly when it was fetched and written
\* with a shorter body, failed exactly when the request or the write raised.
C12_OneOutcomePerItem ==
    /\ \A i \in Finished :
          LET r == futures[i].response
              status == futures[i].result.status
          IN  /\ status \in {"success", "empty", "failed"}
              /\ status = "success" <=> (r.kind = "ok" /\ r.size >= MinContentSize)
              /\ status = "empty" <=> (r.kind = "ok" /\ r.size < MinContentSize)
              /\ status = "failed" <=> r.kind # "ok"
    /\ Returned =>
          /\ \A i \in 1..Len(futures) : futures[i].phase = "consumed"
          /\ stats.success =
                 Cardinality({i \in Finished : futures[i].result.status = "success"})
          /\ stats.empty =
                 Cardinality({i \in Finished : futures[i].result.status = "empty"})
          /\ stats.failed =
                 Cardinality({i \in Finished : futures[i].result.status = "failed"})

C12_Witness ==
    /\ Returned /\ mode = "batch"
    /\ Len(futures) = 2
    /\ futures[1].response.kind = "ok"
    /\ futures[1].response.size = MinContentSize
    /\ futures[1].result.status = "success"
    /\ futures[2].response.kind = "write"
    /\ futures[2].result.status = "failed"

\* C13: a batch call writes exactly one file, named
\* standardize_filename(identifier) + '.csv' in the output folder, for each
\* item classified success or empty, and leaves no file for an item
\* classified failed (stated for the first call on an empty folder).
C13_FilesAreSuccessOrEmpty ==
    (Returned /\ calls = 1) =>
        outFiles[save_folder] =
            {CsvName(p) : p \in ConsumedWith({"success", "empty"})}

\* The characters a file name must not contain
BannedChars == {"/", "\\", "<", ">", ":", "\"", "|", "?", "*"}

\* C14: the file name computed for a fetched item holds none of the
\* characters / \ < > : " | ? *, in the output of standardize_filename and
\* in the name of the file written.
C14_NoBannedCharacter ==
    \A i \in Finished :
        futures[i].response.kind = "ok" =>
            /\ Range(standardize_filename(remaining[i])) \cap BannedChars = {}
            /\ CsvName(remaining[i]) \in outFiles[save_folder]
            /\ \A name \in outFiles[save_folder] : Range(name) \cap BannedChars = {}

\* C15: in every reachable state 1.0 <= throttle_multiplier <= 5.0.
C15_MultiplierWithinBounds ==
    /\ throttle_multiplier.d > 0
    /\ throttle_multiplier.d <= throttle_multiplier.n
    /\ throttle_multiplier.n <= 5 * throttle_multiplier.d

C15_Witness ==
    /\ consecutive_failures >= 9
    /\ throttle_multiplier = [n |-> 5, d |-> 1]

\* The step in which the _download_single of item i returns the status
WorkerReturns(i, status) ==
    /\ futures[i].phase = "running"
    /\ futures'[i].phase = "done"
    /\ futures'[i].result.status \in status

\* C16: every failed item increments the consecutive-failure counter by
\* one; the multiplier is multiplied by 1.5 (capped at 5.0) exactly when the
\* counter after the increment exceeds 5 and is left unchanged otherwise;
\* while the counter exceeds 5 the multiplier never decreases.
C16_FailureRaisesAfterFive ==
    [][ /\ \A i \in 1..Len(futures) :
            WorkerReturns(i, {"failed"}) =>
                /\ consecutive_failures' = consecutive_failures + 1
                /\ IF consecutive_failures' <= 5
                   THEN throttle_multiplier' = throttle_multiplier
                   ELSE IF 3 * throttle_multiplier.n > 10 * throttle_multiplier.d
                   THEN throttle_multiplier' = [n |-> 5, d |-> 1]
                   ELSE 2 * throttle_multiplier.d * throttle_multiplier'.n
                            = 3 * throttle_multiplier.n * throttle_multiplier'.d
        /\ (consecutive_failures > 5 /\ consecutive_failures' > 5) =>
                throttle_multiplier'.n * throttle_multiplier.d
                    >= throttle_multiplier.n * throttle_multiplier'.d
      ]_vars

C16_Witness ==
    /\ consecutive_failures = 7
    /\ throttle_multiplier = [n |-> 9, d |-> 4]

\* C17: every item fetched and written (success or empty) resets the
\* consecutive-failure counter to zero and sets the multiplier to
\* max(1.0, multiplier * 0.9): a multiplier above 1.0 strictly decreases and
\* one of at most 10/9 becomes exactly 1.0.
C17_SuccessResetsAndDecays ==
    [][ \A i \in 1..Len(futures) :
            WorkerReturns(i, {"success", "empty"}) =>
                /\ consecutive_failures' = 0
                /\ IF 9 * throttle_multiplier.n <= 10 * throttle_multiplier.d
                   THEN throttle_multiplier' = [n |-> 1, d |-> 1]
                   ELSE /\ 10 * throttle_multiplier.d * throttle_multiplier'.n
                              = 9 * throttle_multiplier.n * throttle_multiplier'.d
                        /\ throttle_multiplier'.n * throttle_multiplier.d
                              < throttle_multiplier.n * throttle_multiplier'.d
      ]_vars

\* The multiplier was raised by six failures in a row and four successes
\* (one of them empty) brought it back to exactly 1.0
C17_Witness ==
    /\ throttle_multiplier = [n |-> 1, d |-> 1]
    /\ consecutive_failures = 0
    /\ Cardinality({i \in Finished : futures[i].result.status = "failed"}) = 6
    /\ Cardinality({i \in Finished : futures[i].result.status = "success"}) = 2
    /\ Cardinality({i \in Finished : futures[i].result.status = "empty"}) = 2
    /\ \A i \in 1..6 : futures[i].result.status = "failed"

\* C18: filter_existing_files with force unset returns, in the original
\* order, exactly the items whose standardize_filename(identifier) + '.csv'
\* is not present in today's partition folder, and the number of the others;
\* with force set, or when today's folder does not exist, it returns all
\* items and 0.
C18_FilterKeepsItemsWithoutFile ==
    [][ filtered' # filtered =>
            LET today_folder == [base |-> args.output_folder, day |-> today]
                have_file == {p \in Range(args.url_list) :
                                 CsvName(p) \in outFiles[today_folder]}
            IN  /\ filtered'.called
                /\ IF filtered'.force \/ today_folder \notin dirs
                   THEN /\ filtered'.items = args.url_list
                        /\ filtered'.skipped = 0
                   ELSE /\ filtered'.items = NotIn(args.url_list, have_file)
                        /\ filtered'.skipped =
                               Len(args.url_list) - Len(filtered'.items)
      ]_vars

C18_Witness ==
    /\ filtered.called
    /\ ~filtered.force
    /\ Len(args.url_list) = 2
    /\ filtered.items = <<IdB>>
    /\ filtered.skipped = 1
    /\ outFiles[[base |-> args.output_folder, day |-> today]] = {CsvName(IdA)}

\* The number of entries of a sequence that satisfy (point_path, status)
Occurrences(log, p, st) ==
    Cardinality({k \in 1..Len(log) : log[k].point_path = p /\ log[k].status = st})

\* C19: the progress callback is invoked once per processed item, with the
\* item's identifier and outcome; the completed argument takes the values
\* 1, 2, ... in order and the total argument is stats.total, so that the
\* last invocation of a call that returns has completed = total.
C19_CallbackOncePerItem ==
    (args.progress_callback # "None"
        /\ pc \in {"loop", "fsave", "done", "unwind", "raised"}) =>
        /\ Len(progress) = completed
        /\ \A k \in 1..Len(progress) :
              /\ progress[k].completed = k
              /\ progress[k].total = stats.total
        /\ \A p \in Range(remaining), st \in {"success", "empty", "failed"} :
              Occurrences(progress, p, st) =
                  Cardinality({i \in 1..Len(futures) :
                      /\ futures[i].phase = "consumed"
                      /\ remaining[i] = p
                      /\ futures[i].result.status = st})
        /\ Returned =>
              /\ Len(progress) = stats.total
              /\ stats.total = Len(remaining)

C19_Witness ==
    /\ Returned /\ mode = "resume"
    /\ stats.skipped = 0
    /\ Len(progress) = 2
    /\ progress[1].status = "failed"
    /\ progress[2] = [completed |-> 2, total |-> 2, point_path |-> IdA,
                      status |-> "empty"]

\* C20: a progress callback that raises never aborts a download: no
\* exception leaves the batch call, which consumes every item, returns its
\* statistics and, for download_batch_with_resume, saves the state.
C20_CallbackFailureDoesNotAbort ==
    /\ pc \notin {"unwind", "raised"}
    /\ (Returned /\ remaining # <<>>) =>
          /\ AllConsumed
          /\ mode = "resume" => saves >= 1

\* C24: after any sequence of download_batch_with_resume calls on one scope
\* no identifier is both in the state's completed list and in one of its
\* failed entries (stated for lists that name each identifier once).
C24_CompletedAndFailedDisjoint ==
    (mode = "resume" /\ pc = "done" /\ Distinct(args.url_list)) =>
        \A i \in 1..Len(state.failed) :
            state.failed[i].point \notin Range(state.completed)

\* C30: at every moment of a batch call at most max_workers items are in
\* flight (their worker sleeps, requests or writes), whatever the length of
\* the item list.
C30_AtMostMaxWorkersInFlight ==
    Cardinality(Running) <= args.max_workers

C30_Witness ==
    /\ args.max_workers = 1
    /\ Len(futures) = 2
    /\ futures[1].phase = "running"
    /\ futures[2].phase = "queued"

\* The responses in which writing the item's file fails
DiskErrors == {r \in DiskResponses : r.kind \in {"open", "write"}}

\* C27: a filesystem error while an item's file is written makes the item
\* failed with the exception's message cut to at most 50 characters, counts
\* as a failure for the throttle (the consecutive-failure counter goes up by
\* one and the multiplier follows _handle_failure), and the batch goes on:
\* no exception leaves the call and every item is consumed before it returns.
C27_DiskErrorFailsItemOnly ==
    [][ /\ \A i \in 1..Len(futures) :
            (WorkerReturns(i, {"failed", "success", "empty"})
                /\ futures'[i].response \in DiskErrors) =>
                /\ futures'[i].result.status = "failed"
                /\ Len(futures'[i].result.error) = 1
                /\ Len(futures'[i].result.error[1]) <= 50
                /\ futures'[i].result.error[1]
                      = SubSeq(futures'[i].response.msg, 1,
                               Len(futures'[i].result.error[1]))
                /\ consecutive_failures' = consecutive_failures + 1
                /\ throttle_multiplier'
                      = handle_failure(consecutive_failures', throttle_multiplier)
        /\ pc' \notin {"unwind", "raised"}
        /\ pc' = "done" =>
              /\ completed' = Len(futures')
              /\ stats'.failed = Cardinality({i \in 1..Len(futures') :
                                     futures'[i].response \in DiskErrors})
      ]_vars

C27_Witness ==
    /\ Returned
    /\ Len(futures) = 2
    /\ futures[1].response = PermissionDenied
    /\ Len(futures[1].result.error[1]) = 50
    /\ futures[2].response.kind = "ok"
    /\ stats.failed = 1 /\ stats.success = 1

\* C28: a batch call with an empty item list short-circuits: it returns
\* statistics whose counts are all 0 and whose error list is empty, issues no
\* request, invokes no callback and raises no exception.
C28_EmptyListShortCircuits ==
    (calls > 0 /\ args.url_list = <<>>) =>
        /\ pc = "done"
        /\ stats = NewStats(0, 0)
        /\ requests = <<>>
        /\ progress = <<>>

\* The answer a triggers a retry because of its status code alone
ForcedRetry(a) == a.status \in StatusForcelist

\* The answers received for the request of item i (the last one ended it)
Got(i) == wire[i].got

\* C29 as stated: a GET that keeps receiving a status in {429, 500, 502,
\* 503, 504} is sent at most 3 times in total and then is a failed outcome
\* of its item, the batch going on; no other status code triggers a retry.
C29_AtMostThreeSends ==
    /\ \A i \in 1..Len(wire) :
          /\ Len(Got(i)) <= 3
          /\ wire[i].outcome # "" =>
                /\ \A n \in 1..(Len(Got(i)) - 1) : ForcedRetry(Got(i)[n])
                /\ (\A n \in 1..Len(Got(i)) : ForcedRetry(Got(i)[n])) =>
                      futures[i].result.status = "failed"
    /\ pc \notin {"unwind", "raised"}
    /\ Returned => AllConsumed

\* C29, amended: a GET that keeps receiving a status in {429, 500, 502, 503,
\* 504} is sent at most 4 times in total (the first attempt and up to 3
\* retries) and then is a failed outcome of its item, the batch going on; no
\* other status code triggers a retry, except 413 on a response that carries
\* a Retry-After header.
C29_AtMostFourSends ==
    /\ \A i \in 1..Len(wire) :
          /\ Len(Got(i)) <= 4
          /\ wire[i].outcome # "" =>
                /\ \A n \in 1..(Len(Got(i)) - 1) :
                      \/ ForcedRetry(Got(i)[n])
                      \/ Got(i)[n].status = 413 /\ Got(i)[n].retry_after
                /\ (\A n \in 1..Len(Got(i)) : ForcedRetry(Got(i)[n])) =>
                      /\ Len(Got(i)) = 4
                      /\ wire[i].outcome = "RetryError"
                      /\ futures[i].result.status = "failed"
    /\ pc \notin {"unwind", "raised"}
    /\ Returned => AllConsumed

C29_Witness ==
    /\ Returned
    /\ Len(wire) = 2
    /\ Len(Got(1)) = 4
    /\ \A n \in 1..4 : Got(1)[n].status = 503
    /\ futures[1].result.status = "failed"
    /\ futures[2].result.status = "success"
    /\ stats.failed = 1 /\ stats.success = 1

\* C21: after the user has requested a stop, no item that was not yet
\* started is dispatched: no new request is issued for the rest of the run.
C21_NoDispatchAfterStop ==
    [][ (run.kind = "gui" /\ run.stage = "engine" /\ ~run.is_running) =>
            requests' = requests ]_vars

\* C22: the engine's session is closed on every exit path of a download
\* run: no run ends with its engine's session still open.
C22_SessionClosedWhenRunEnds ==
    run.stage = "ended" => run.session # "open"

\* C23: an exception that leaves a batch call was raised before any item
\* was dispatched; once work has begun no exception reaches the caller.
C23_NoExceptionOnceWorkBegan ==
    pc = "raised" => requests = <<>>

\* C25: a run for one site never loads state written by a run for another
\* site: the state a run's batch call works on was started for its site.
C25_StateOfSameSiteOnly ==
    (run.kind = "gui" /\ run.stage = "engine" /\ pc # "raised") =>
        state.district = run.district

\* C26: for a run that goes through the pre-filter and then
\* download_batch_with_resume, the skipped count reported at the end is the
\* number of items skipped by prior state plus the number skipped by the
\* pre-filter.
C26_SkippedIsStatePlusPrefilter ==
    (run.kind = "cli" /\ run.stage = "ended" /\ ~run.raised) =>
        run.reported_skipped = run.engine_skipped + run.prefilter_skipped

\* The empty identifiers a state file holds
FileEmpty(file) ==
    IF file.exists /\ file.valid
    THEN {file.doc.v.empty.v[i].v : i \in 1..Len(file.doc.v.empty.v)}
    ELSE {}

\* C36: every identifier in the state's empty list is also in its completed
\* list, in memory after each consumed result and in every state file
\* written.
C36_EmptyWithinCompleted ==
    /\ Range(state.empty) \subseteq Range(state.completed)
    /\ \A f \in Folders : FileEmpty(stateFile[f]) \subseteq FileCompleted(stateFile[f])

C36_Witness ==
    /\ Returned /\ mode = "resume"
    /\ calls = 2
    /\ stats.skipped = 1
    /\ state.empty = <<IdA>>
    /\ FileEmpty(stateFile[save_folder]) = {IdA}
    /\ Len(state.completed) = 2

\* C37: an identifier enters the completed list only after its output file
\* was written: every identifier this call has added to the completed list,
\* in memory or in the state file, has its output file in the call's folder.
C37_CompletedHaveTheirFile ==
    mode = "resume" =>
        /\ \A p \in Range(NewlyCompleted) : CsvName(p) \in outFiles[save_folder]
        /\ \A p \in FileCompleted(stateFile[save_folder]) \ already_done :
              CsvName(p) \in outFiles[save_folder]

C37_Witness ==
    /\ Returned /\ mode = "resume"
    /\ Len(NewlyCompleted) = 1
    /\ stats.failed = 1
    /\ FileCompleted(stateFile[save_folder]) = Range(NewlyCompleted)
    /\ Cardinality(outFiles[save_folder]) = 1

\* A step of a worker body: a request is issued, or a _download_single
\* returns
WorkerStep ==
    \/ Len(requests') = Len(requests) + 1
    \/ \E i \in 1..Len(futures) :
          /\ Len(futures') = Len(futures)
          /\ WorkerReturns(i, {"success", "empty", "failed"})

\* A write of the state file is in progress
Saving == pc \in {"psave", "fsave"}

\* C32: within one batch call the statistics, the resumable state and the
\* state file change only in steps of the result-consumption loop, never in
\* a step of a worker body; and while a write of the state file is in
\* progress the file changes only by the completion of that write.
C32_OnlyTheLoopMutates ==
    [][ /\ WorkerStep => UNCHANGED <<stats, state, stateFile>>
        /\ (Saving /\ stateFile' # stateFile) =>
              /\ ~Saving'
              /\ stateFile' = [stateFile EXCEPT ![save_folder] = WrittenFile(state)]
      ]_vars

C32_Witness ==
    /\ pc = "psave"
    /\ mode = "resume"
    /\ completed = SaveEvery
    /\ \E i \in 1..Len(futures) : futures[i].phase = "running"
    /\ stats.success = SaveEvery

\* The batch call has ended, by returning or by an exception
Ended == pc \in {"done", "raised"}

\* C34: a batch call whose requests all come back terminates by returning
\* its statistics, every submitted item having reached a terminal outcome
\* and every result having been consumed: a call that has ended has
\* returned, and all its futures are consumed.
C34_CallEndsByReturningAll ==
    (Ended /\ Len(futures) > 0) =>
        /\ Returned
        /\ \A i \in 1..Len(futures) : futures[i].phase = "consumed"
        /\ Counted = Len(futures)

\* C35: the item list URLGenerator.generate makes from a point list holds
\* each identifier at most once, one (identifier, url) pair per point, in
\* the order of the point list.
C35_GeneratedIdentifiersUnique ==
    (args.generated.called /\ ~args.generated.raised) =>
        LET urls == args.generated.urls
            points == load_point_list(args.point_file)
        IN  /\ Len(urls) = Len(points)
            /\ \A i \in 1..Len(urls) : urls[i].point_path = points[i]
            /\ \A i, j \in 1..Len(urls) :
                  i # j => urls[i].point_path # urls[j].point_path

\* ------------------------------------------------------------------------
\* The standard pipeline: pre-filter, then resumable batch, run after run
\* ------------------------------------------------------------------------
\* Runs of process_district without --force whose downloads can also fail
\* while the output file is being written
NextPipeline ==
    \/ CliRun(FALSE)
    \/ CliRunEnd
    \/ Work(CoreResponses)
    \/ FinalSave
    \/ Unwound

SpecPipeline == InitGui /\ [][NextPipeline]_vars

\* The points recorded as failed by the batch call that has just returned
FailedPoints == {state.failed[k].point : k \in 1..Len(state.failed)}

\* C38: when a run of the pipeline starts after a run whose batch call
\* returned on the same day, every item that call recorded as failed is in
\* the list the new run hands to the workers: neither the pre-filter nor
\* the state filter removed it.
C38_FailedRequestedAgain ==
    [][(/\ run.kind = "cli"
        /\ run.stage = "ended"
        /\ ~run.raised
        /\ pc = "done"
        /\ run' # run
        /\ today' = today)
       => \A p \in FailedPoints :
              /\ run'.stage = "engine"
              /\ p \in Range(remaining')]_vars

\* ------------------------------------------------------------------------
\* _download_single statement by statement, one pool thread per item
\* ------------------------------------------------------------------------
\* What a step of a pool thread leaves alone in any case
ThreadLeaves ==
    UNCHANGED <<today, stateFile, calls, pc, mode, args, save_folder, state,
                already_done, remaining, stats, completed, requests, saves,
                prev, crash, progress, filtered, dirs, run, wire, printer>>

\* The pool thread of item i stands at `at`
ThreadAt(i, at) ==
    /\ pc \in {"loop", "psave", "unwind"}
    /\ i \in Running
    /\ thr[i].at = at

\* The threads inside "with open(filepath, 'wb') as f"
FileOpen == {i \in Running : thr[i].at = "file"}

\* session.get and raise_for_status of item i end with r; after a 200 the
\* thread opens the output file, which creates or truncates it
GetReturns(i, r) ==
    /\ ThreadAt(i, "get")
    /\ r \in ResponsesFor(remaining[i])
    /\ thr' = [thr EXCEPT ![i].r = r,
                          ![i].at = IF OpensFile(r) THEN "file" ELSE "want"]
    /\ outFiles' = IF OpensFile(r)
                   THEN [outFiles EXCEPT ![save_folder] = @ \cup {CsvName(remaining[i])}]
                   ELSE outFiles
    /\ ThreadLeaves
    /\ UNCHANGED <<futures, doneQueue, consecutive_failures,
                   throttle_multiplier, lock>>

\* f.write(response.content) returns or raises, and the "with" statement
\* closes the file
FileCloses(i) ==
    /\ ThreadAt(i, "file")
    /\ thr' = [thr EXCEPT ![i].at = "want"]
    /\ ThreadLeaves
    /\ UNCHANGED <<outFiles, futures, doneQueue, consecutive_failures,
                   throttle_multiplier, lock>>

\* A lock that every thread finds free
LockNeverHeld == TRUE

\* threading.Lock: acquire blocks while another thread holds the lock
LockFree == lock.held = {}

\* "with self._lock:" is entered, in the success branch or in
\* _handle_failure
Acquire(i) ==
    /\ ThreadAt(i, "want")
    /\ LockFree
    /\ lock' = [held |-> lock.held \cup {i},
                log |-> Append(lock.log, IF thr[i].r.kind = "ok" THEN "ok" ELSE "fail")]
    /\ thr' = [thr EXCEPT ![i].at = IF thr[i].r.kind = "ok" THEN "reset"
                                    ELSE "incr_load"]
    /\ ThreadLeaves
    /\ UNCHANGED <<outFiles, futures, doneQueue, consecutive_failures,
                   throttle_multiplier>>

\* self._consecutive_failures = 0
ResetCounter(i) ==
    /\ ThreadAt(i, "reset")
    /\ consecutive_failures' = 0
    /\ thr' = [thr EXCEPT ![i].at = "decay_load"]
    /\ ThreadLeaves
    /\ UNCHANGED <<outFiles, futures, doneQueue, throttle_multiplier, lock>>

\* self._throttle_multiplier = max(1.0, self._throttle_multiplier * 0.9):
\* the read
DecayLoad(i) ==
    /\ ThreadAt(i, "decay_load")
    /\ thr' = [thr EXCEPT ![i].m = throttle_multiplier,
                          ![i].at = "decay_store"]
    /\ ThreadLeaves
    /\ UNCHANGED <<outFiles, futures, doneQueue, consecutive_failures,
                   throttle_multiplier, lock>>

\* ... and the write
DecayStore(i) ==
    /\ ThreadAt(i, "decay_store")
    /\ throttle_multiplier' = Decay(thr[i].m)
    /\ thr' = [thr EXCEPT ![i].at = "release"]
    /\ ThreadLeaves
    /\ UNCHANGED <<outFiles, futures, doneQueue, consecutive_failures, lock>>

\* self._consecutive_failures += 1: the read
IncrLoad(i) ==
    /\ ThreadAt(i, "incr_load")
    /\ thr' = [thr EXCEPT ![i].cf = consecutive_failures,
                          ![i].at = "incr_store"]
    /\ ThreadLeaves
    /\ UNCHANGED <<outFiles, futures, doneQueue, consecutive_failures,
                   throttle_multiplier, lock>>

\* ... and the write
IncrStore(i) ==
    /\ ThreadAt(i, "incr_store")
    /\ consecutive_failures' = thr[i].cf + 1
    /\ thr' = [thr EXCEPT ![i].at = "test"]
    /\ ThreadLeaves
    /\ UNCHANGED <<outFiles, futures, doneQueue, throttle_multiplier, lock>>

\* "if self._consecutive_failures > 5:" and, when it holds, the read of
\* self._throttle_multiplier
TestCounter(i) ==
    /\ ThreadAt(i, "test")
    /\ thr' = IF consecutive_failures > 5
              THEN [thr EXCEPT ![i].m = throttle_multiplier,
                               ![i].at = "raise_store"]
              ELSE [thr EXCEPT ![i].at = "release"]
    /\ ThreadLeaves
    /\ UNCHANGED <<outFiles, futures, doneQueue, consecutive_failures,
                   throttle_multiplier, lock>>

\* self._throttle_multiplier = min(5.0, self._throttle_multiplier * 1.5):
\* the write
RaiseStore(i) ==
    /\ ThreadAt(i, "raise_store")
    /\ throttle_multiplier' = Raise(thr[i].m)
    /\ thr' = [thr EXCEPT ![i].at = "release"]
    /\ ThreadLeaves
    /\ UNCHANGED <<outFiles, futures, doneQueue, consecutive_failures, lock>>

\* The "with self._lock:" block is left
Release(i) ==
    /\ ThreadAt(i, "release")
    /\ lock' = [lock EXCEPT !.held = @ \ {i}]
    /\ thr' = [thr EXCEPT ![i].at = "return"]
    /\ ThreadLeaves
    /\ UNCHANGED <<outFiles, futures, doneQueue, consecutive_failures,
                   throttle_multiplier>>

\* _download_single returns its tuple and the future of item i is done
Returns(i) ==
    /\ ThreadAt(i, "return")
    /\ futures' = [futures EXCEPT ![i] =
                      [phase |-> "done", response |-> thr[i].r,
                       result |-> download_single_result(remaining[i], thr[i].r)]]
    /\ doneQueue' = Append(doneQueue, i)
    /\ thr' = [thr EXCEPT ![i].at = "returned"]
    /\ ThreadLeaves
    /\ UNCHANGED <<outFiles, consecutive_failures, throttle_multiplier, lock>>

\* Two point paths that differ, in each order: some pairs have the same
\* output file name, some do not
TwinPaths == {IdA, <<"a">>, <<"a", ":", "b">>, <<"a", "_", "b">>}
TwinLists == {<<p, q>> : p, q \in TwinPaths} \ {<<p, p>> : p \in TwinPaths}
\* The first points of the throttle list
LockList == SubSeq(ThrottleList, 1, LockLen)

ThreadCalls ==
    [url_list : TwinLists \cup {LockList}, output_folder : {"out"},
     date_subfolder : {TRUE}, district : {"D1"}, max_workers : {2},
     progress_callback : {"None"}]

\* What the requests of these batches end with: a timeout, a body with
\* data, or a body whose write fails
ThreadResponses ==
    {r \in Responses :
        \/ r.kind \in {"timeout", "write"}
        \/ (r.kind = "ok" /\ r.size >= MinContentSize)}

\* download_batch with two pool threads, each running _download_single
\* statement by statement
NextThreads ==
    \/ calls < ThreadMaxCalls /\ download_batch
    \/ WorkerStart
    \/ \E i \in Running, r \in ThreadResponses : GetReturns(i, r)
    \/ \E i \in Running : FileCloses(i)
    \/ \E i \in Running : Acquire(i)
    \/ \E i \in Running : ResetCounter(i)
    \/ \E i \in Running : DecayLoad(i)
    \/ \E i \in Running : DecayStore(i)
    \/ \E i \in Running : IncrLoad(i)
    \/ \E i \in Running : IncrStore(i)
    \/ \E i \in Running : TestCounter(i)
    \/ \E i \in Running : RaiseStore(i)
    \/ \E i \in Running : Release(i)
    \/ \E i \in Running : Returns(i)
    \/ Consume
    \/ LoopExit

InitThreads == InitWith(ThreadCalls)

SpecThreads == InitThreads /\ [][NextThreads]_vars

\* C39: in a batch whose identifiers are pairwise distinct, no two pool
\* threads have the same output file open for writing at the same time.
C39_NoTwoWritersOfOneFile ==
    Distinct(remaining) =>
        \A i, j \in FileOpen :
            CsvName(remaining[i]) = CsvName(remaining[j]) => i = j

\* The pair the updates leave when they are applied one after the other in
\* the order of `log`
RECURSIVE Serial(_)
Serial(log) ==
    IF log = <<>> THEN [cf |-> 0, m |-> One]
    ELSE LET p == Serial(SubSeq(log, 1, Len(log) - 1))
         IN  IF log[Len(log)] = "ok"
             THEN [cf |-> 0, m |-> Decay(p.m)]
             ELSE [cf |-> p.cf + 1, m |-> handle_failure(p.cf + 1, p.m)]

\* C31: at most one thread is inside a "with self._lock:" block, and
\* whenever none is, the counter and the multiplier are what the updates
\* made so far give when applied one at a time in the order the lock was
\* taken: k failures in a row raise the counter by exactly k, and no update
\* starts from a pair another update has half written.
C31_UpdatesAreAtomic ==
    /\ Cardinality(lock.held) <= 1
    /\ lock.held = {} =>
           /\ consecutive_failures = Serial(lock.log).cf
           /\ throttle_multiplier = Serial(lock.log).m

\* The sixth failure in a row is raising the multiplier while the other
\* pool thread, which has failed too, waits for the lock
C31_Witness ==
    \E i, j \in Running :
        /\ i # j
        /\ lock.held = {i}
        /\ thr[i].at = "raise_store"
        /\ thr[j].at = "want"
        /\ thr[j].r.kind # "ok"

\* ------------------------------------------------------------------------
\* ProgressPrinter.__call__ statement by statement, called by several threads
\* ------------------------------------------------------------------------
Statuses == {"success", "empty", "failed"}

\* The counter that __call__ increments for a status
CounterOf(status) ==
    IF status = "success" THEN "ok"
    ELSE IF status = "empty" THEN "empty"
    ELSE "fail"

\* A step of a caller of the printer changes nothing of the engine
PrinterStep(t, at) ==
    /\ printer.callers[t].at = at
    /\ UNCHANGED <<today, stateFile, outFiles, calls, pc, mode, args,
                   save_folder, state, already_done, remaining, stats,
                   futures, doneQueue, completed, consecutive_failures,
                   throttle_multiplier, requests, saves, prev, crash,
                   progress, filtered, dirs, run, wire, lock, thr>>

\* Thread t calls the printer with a status
PrinterCall(t, status) ==
    /\ PrinterStep(t, "out")
    /\ printer.begun < MaxPrinterCalls
    /\ printer' = [printer EXCEPT !.begun = @ + 1,
                                  !.callers[t] = [at |-> "want",
                                                  status |-> status,
                                                  tmp |-> 0]]

\* A printer lock that every thread finds free
PrinterLockNeverHeld == TRUE

\* self._lock of the printer: acquire blocks while another thread holds it
PrinterLockFree == printer.lock = {}

\* "with self._lock:" is entered
PrinterAcquire(t) ==
    /\ PrinterStep(t, "want")
    /\ PrinterLockFree
    /\ printer' = [printer EXCEPT !.lock = @ \cup {t},
                                  !.callers[t].at = "count_load"]

\* self._count += 1: the read
CountLoad(t) ==
    /\ PrinterStep(t, "count_load")
    /\ printer' = [printer EXCEPT !.callers[t].tmp = printer.count,
                                  !.callers[t].at = "count_store"]

\* ... and the write
CountStore(t) ==
    /\ PrinterStep(t, "count_store")
    /\ printer' = [printer EXCEPT !.count = printer.callers[t].tmp + 1,
                                  !.callers[t].at = "status_load"]

\* self._ok += 1, self._empty += 1 or self._fail += 1: the read
StatusLoad(t) ==
    /\ PrinterStep(t, "status_load")
    /\ printer' = [printer EXCEPT
                      !.callers[t].tmp = printer[CounterOf(printer.callers[t].status)],
                      !.callers[t].at = "status_store"]

\* ... and the write
StatusStore(t) ==
    /\ PrinterStep(t, "status_store")
    /\ printer' = [printer EXCEPT
                      ![CounterOf(printer.callers[t].status)] = printer.callers[t].tmp + 1,
                      !.callers[t].at = "release"]

\* The bar is written, the "with" block is left and __call__ returns
PrinterRelease(t) ==
    /\ PrinterStep(t, "release")
    /\ printer' = [printer EXCEPT !.lock = @ \ {t},
                                  !.callers[t] = NotCalling]

NextPrinter ==
    \/ \E t \in PrinterThreads, status \in Statuses : PrinterCall(t, status)
    \/ \E t \in PrinterThreads : PrinterAcquire(t)
    \/ \E t \in PrinterThreads : CountLoad(t)
    \/ \E t \in PrinterThreads : CountStore(t)
    \/ \E t \in PrinterThreads : StatusLoad(t)
    \/ \E t \in PrinterThreads : StatusStore(t)
    \/ \E t \in PrinterThreads : PrinterRelease(t)

SpecPrinter == InitProgress /\ [][NextPrinter]_vars

\* The calls that are not inside __call__ any more
PrinterReturned ==
    printer.begun - Cardinality({t \in PrinterThreads : printer.callers[t].at # "out"})

\* C33: whenever no thread is inside a call of the printer, after n calls
\* in any interleaving, _count == n and _ok + _empty + _fail == _count.
C33_PrinterCountsEveryCall ==
    (\A t \in PrinterThreads : printer.callers[t].at = "out") =>
        /\ printer.count = printer.begun
        /\ printer.ok + printer.empty + printer.fail = printer.count

\* One call has returned, a second is inside the lock and has counted
\* itself, a third waits for the lock
C33_Witness ==
    \E t, u \in PrinterThreads :
        /\ t # u
        /\ printer.callers[t].at = "status_store"
        /\ printer.callers[u].at = "want"
        /\ printer.count = 2
        /\ PrinterReturned = 1

====
